---- MODULE Spec2Model ----
(***************************************************************************)
(* A model of the DoroLang tree-walking interpreter (src/interpreter.py)   *)
(* working on the syntax trees that src/parser.py builds.                  *)
(*                                                                         *)
(* Representation.                                                         *)
(*  - A text is a sequence of one-character strings.                       *)
(*  - A runtime value is a record [t, n, s]: t is the Python type of the   *)
(*    value ("float", "int", "bool", "str", "none"), n its number and s    *)
(*    its text.  A float is kept exactly as a count of halves (n = 3 is    *)
(*    1.5); a float operation whose result is no multiple of one half, is  *)
(*    the negative zero, or leaves the magnitude bound is reported with    *)
(*    the signal "oob" and the run that made it is not part of the model.  *)
(*  - A syntax tree node is a record with the fields of the dataclass of   *)
(*    src/parser.py plus k, the name of its class.                         *)
(*  - A step of the interpreter takes an interpreter state (a record with  *)
(*    the fields of Interpreter and Environment, the signal of a raised    *)
(*    exception and the observation logs) to the next one.                 *)
(***************************************************************************)
EXTENDS Integers, Sequences, FiniteSets, TLC

\* ---------------------------------------------------------------- bounds

\* interpret() calls in one behaviour
MaxCalls == 2
\* loop iterations and function calls one interpret() call may make; a run
\* that needs more does not return and is no step of the model
MaxFuel == 12
\* largest magnitude of a number (in halves) the model follows
MaxHalves == 2000
\* operand numbers of the operator specification range over -1 .. MaxOperand
MaxOperand == 5
\* the start and end of the counting loops range over -1 .. MaxCount
MaxCount == 3
\* factorial is called on 0 .. MaxFactorial
MaxFactorial == 4
\* the short source texts have at most MaxSource characters
MaxSource == 3
\* the IDE has at most MaxThreads execution threads alive at once, and at
\* most MaxThreads callbacks waiting in its event loop
MaxThreads == 2
\* the parser is given every list of up to MaxTokens tokens and the EOF token
MaxTokens == 2
\* and say with every expression of up to MaxOperators binary operators
MaxOperators == 2

\* the recursion limit of the Python interpreter
MaxFrames == 1000

\* the frames a deep caller leaves to parse()
MaxRoom == 20

\* the characters of the longest raw content of a string literal
MaxRaw == 4

\* ---------------------------------------------------------------- texts

Digits == <<"0", "1", "2", "3", "4", "5", "6", "7", "8", "9">>

\* the characters of the model's texts in code point order
Ascii ==
  <<" ", "'", "+", "-", ".", "0", "1", "2", "3", "4", "5", "6", "7", "8", "9",
    ":", "A", "F", "N", "T", "V", "a", "b", "e", "g", "l", "n", "o", "r", "s",
    "t", "u", "x", "y">>

IsDigit(c) == \E i \in 1..Len(Digits) : Digits[i] = c

DigitVal(c) == (CHOOSE i \in 1..Len(Digits) : Digits[i] = c) - 1

CodePoint(c) == CHOOSE i \in 1..Len(Ascii) : Ascii[i] = c

AllDigits(cs) == \A i \in 1..Len(cs) : IsDigit(cs[i])

RECURSIVE DigitsVal(_)
DigitsVal(cs) ==
  IF cs = <<>> THEN 0
  ELSE 10 * DigitsVal(SubSeq(cs, 1, Len(cs) - 1)) + DigitVal(cs[Len(cs)])

RECURSIVE Pow10(_)
Pow10(k) == IF k = 0 THEN 1 ELSE 10 * Pow10(k - 1)

RECURSIVE NatToStr(_)
NatToStr(m) ==
  IF m < 10 THEN <<Digits[m + 1]>>
  ELSE NatToStr(m \div 10) \o <<Digits[(m % 10) + 1]>>

Abs(i) == IF i < 0 THEN -i ELSE i

\* Python's str.strip() on a text whose only white space is the blank
RECURSIVE Strip(_)
Strip(cs) ==
  IF cs = <<>> THEN cs
  ELSE IF Head(cs) = " " THEN Strip(Tail(cs))
  ELSE IF cs[Len(cs)] = " " THEN Strip(SubSeq(cs, 1, Len(cs) - 1))
  ELSE cs

Contains(cs, c) == \E i \in 1..Len(cs) : cs[i] = c

FirstIndex(cs, c) == CHOOSE i \in 1..Len(cs) : cs[i] = c /\ \A j \in 1..(i - 1) : cs[j] # c

HasSign(cs) == cs # <<>> /\ Head(cs) \in {"+", "-"}

Unsigned(cs) == IF HasSign(cs) THEN Tail(cs) ELSE cs

IsNegative(cs) == cs # <<>> /\ Head(cs) = "-"

\* ---------------------------------------------------------------- values

FloatV(h) == [t |-> "float", n |-> h, s |-> <<>>]
IntV(i) == [t |-> "int", n |-> i, s |-> <<>>]
BoolV(b) == [t |-> "bool", n |-> IF b THEN 1 ELSE 0, s |-> <<>>]
StrV(cs) == [t |-> "str", n |-> 0, s |-> cs]
NoneV == [t |-> "none", n |-> 0, s |-> <<>>]

\* isinstance(v, (int, float)): Python's bool is a subclass of int
IsNumber(v) == v.t \in {"int", "float", "bool"}
IsStr(v) == v.t = "str"
IsBool(v) == v.t = "bool"

\* the number of a numeric value, in halves
Halves(v) == IF v.t = "float" THEN v.n ELSE 2 * v.n

\* the result of an evaluation: a value, a raised RuntimeError, or a value
\* the model does not follow
Ok(v) == [sig |-> "ok", val |-> v, msg |-> ""]
Raise(m) == [sig |-> "err", val |-> NoneV, msg |-> m]
Oob == [sig |-> "oob", val |-> NoneV, msg |-> ""]

\* a float of h halves, or an int of h halves (h is even then)
Num(isFloat, h) ==
  IF Abs(h) > MaxHalves THEN Oob
  ELSE IF isFloat THEN Ok(FloatV(h))
  ELSE Ok(IntV(h \div 2))

\* Python's int(text) accepts c, a text without blanks around it
IsIntText(c) == Unsigned(c) # <<>> /\ AllDigits(Unsigned(c))

IntOfText(c) == IF IsNegative(c) THEN -DigitsVal(Unsigned(c)) ELSE DigitsVal(Unsigned(c))

\* Python's float(text), from the digits before and after the point: the
\* text is no number (the value is kept), or a number the model does not
\* follow (an exponent, no multiple of one half, the negative zero), or a float
FloatOfParts(value, ip, fp, negative, hasExponent, exponent) ==
  IF ~(/\ AllDigits(ip)
       /\ AllDigits(fp)
       /\ Len(ip) + Len(fp) > 0
       /\ hasExponent => (exponent # <<>> /\ AllDigits(exponent)))
  THEN Ok(value)
  ELSE IF \/ hasExponent
          \/ (2 * DigitsVal(fp)) % Pow10(Len(fp)) # 0
          \/ (negative /\ DigitsVal(ip) = 0 /\ DigitsVal(fp) = 0)
  THEN Oob
  ELSE Num(TRUE, (IF negative THEN -1 ELSE 1)
                   * (2 * DigitsVal(ip) + (2 * DigitsVal(fp)) \div Pow10(Len(fp))))

\* float(text), from the mantissa m: it is split at its first point
FloatOfMantissa(value, m, negative, hasExponent, exponent) ==
  IF ~Contains(m, ".") THEN Ok(value)
  ELSE FloatOfParts(value, SubSeq(m, 1, FirstIndex(m, ".") - 1),
                    SubSeq(m, FirstIndex(m, ".") + 1, Len(m)),
                    negative, hasExponent, exponent)

\* float(text), from the text u without its sign: it is split at an exponent
FloatOfUnsigned(value, u, negative) ==
  IF Contains(u, "e")
  THEN FloatOfMantissa(value, SubSeq(u, 1, FirstIndex(u, "e") - 1), negative, TRUE,
                       Unsigned(SubSeq(u, FirstIndex(u, "e") + 1, Len(u))))
  ELSE FloatOfMantissa(value, u, negative, FALSE, <<>>)

\* _to_numeric on a text, c being the text without the blanks around it:
\* float(value) if '.' in value, else int(value); the value itself on ValueError
NumberOfText(value, c) ==
  IF Contains(value.s, ".") THEN FloatOfUnsigned(value, Unsigned(c), IsNegative(c))
  ELSE IF IsIntText(c) THEN Num(FALSE, 2 * IntOfText(c))
  ELSE Ok(value)

\* Interpreter._to_numeric: a text that reads as a number becomes that
\* number, every other value is returned as it is
_to_numeric(value) ==
  IF IsStr(value) THEN NumberOfText(value, Strip(value.s)) ELSE Ok(value)

\* Python's str(value)
PyStr(value) ==
  CASE value.t = "str" -> value.s
    [] value.t = "bool" -> IF value.n = 1 THEN <<"T", "r", "u", "e">>
                           ELSE <<"F", "a", "l", "s", "e">>
    [] value.t = "none" -> <<"N", "o", "n", "e">>
    [] value.t = "int" -> (IF value.n < 0 THEN <<"-">> ELSE <<>>) \o NatToStr(Abs(value.n))
    [] value.t = "float" ->
         (IF value.n < 0 THEN <<"-">> ELSE <<>>)
           \o NatToStr(Abs(value.n) \div 2)
           \o <<".", IF value.n % 2 = 0 THEN "0" ELSE "5">>

\* str(v).lower() if isinstance(v, bool) else str(v)
ConcatForm(v) ==
  IF IsBool(v)
  THEN IF v.n = 1 THEN <<"t", "r", "u", "e">> ELSE <<"f", "a", "l", "s", "e">>
  ELSE PyStr(v)

\* a wrong _is_truthy: a text that reads as the number 0 is false
IsTruthyOfNumber(value) ==
  IF IsStr(value) THEN value.s \notin {<<>>, <<"0">>}
  ELSE value.t # "none" /\ value.n # 0

\* Interpreter._is_truthy
_is_truthy(value) ==
  IF value.t = "none" THEN FALSE
  ELSE IF IsBool(value) THEN value.n = 1
  ELSE IF IsNumber(value) /\ value.n = 0 THEN FALSE
  ELSE IF IsStr(value) /\ value.s = <<>> THEN FALSE
  ELSE TRUE

\* Python's % on numbers: the result has the sign of the divisor
PyMod(a, b) == IF b > 0 THEN a % b ELSE -((-a) % (-b))

\* Python's order of texts: by code point, a proper prefix first
RECURSIVE StrLess(_, _)
StrLess(a, b) ==
  IF b = <<>> THEN FALSE
  ELSE IF a = <<>> THEN TRUE
  ELSE IF Head(a) = Head(b) THEN StrLess(Tail(a), Tail(b))
  ELSE CodePoint(Head(a)) < CodePoint(Head(b))

Operators == {"+", "-", "*", "/", "%", "==", "!=", "<", ">", "<=", ">=", "and", "or"}

\* apply_binary_operation, "-", "*", "/", "%" on two numbers of a and b
\* halves; the result is a float when an operand is one, and always for "/"
Arithmetic(isFloat, operator, a, b) ==
  CASE operator = "-" -> Num(isFloat, a - b)
    [] operator = "*" ->
         IF isFloat /\ ((a * b) % 2 # 0 \/ (a * b = 0 /\ (a < 0 \/ b < 0)))
         THEN Oob
         ELSE Num(isFloat, (a * b) \div 2)
    [] operator = "/" ->
         IF b = 0 THEN Raise("Division by zero")
         ELSE IF (2 * a) % Abs(b) # 0 \/ (a = 0 /\ b < 0) THEN Oob
         ELSE Num(TRUE, IF b > 0 THEN (2 * a) \div b ELSE -((2 * a) \div (-b)))
    [] operator = "%" ->
         IF b = 0 THEN Raise("Modulo by zero")
         ELSE IF isFloat /\ PyMod(a, b) = 0 /\ b < 0 THEN Oob
         ELSE Num(isFloat, PyMod(a, b))

\* apply_binary_operation, the comparison of two numbers of a and b halves
NumberCompare(operator, a, b) ==
  CASE operator = "==" -> a = b
    [] operator = "!=" -> a # b
    [] operator = "<" -> a < b
    [] operator = ">" -> a > b
    [] operator = "<=" -> a <= b
    [] operator = ">=" -> a >= b

\* apply_binary_operation, the comparison of two texts
StrCompare(operator, a, b) ==
  CASE operator = "==" -> a = b
    [] operator = "!=" -> a # b
    [] operator = "<" -> StrLess(a, b)
    [] operator = ">" -> StrLess(b, a)
    [] operator = "<=" -> ~StrLess(b, a)
    [] operator = ">=" -> ~StrLess(a, b)

\* apply_binary_operation, from the operands after _to_numeric
ApplyCoerced(left, operator, right, num_left, num_right) ==
  IF operator = "+"
  THEN IF IsNumber(num_left) /\ IsNumber(num_right)
       THEN Num(num_left.t = "float" \/ num_right.t = "float",
                Halves(num_left) + Halves(num_right))
       ELSE Ok(StrV(ConcatForm(left) \o ConcatForm(right)))
  ELSE IF operator \in {"-", "*", "/", "%"}
  THEN IF ~IsNumber(num_left) \/ ~IsNumber(num_right)
       THEN Raise("Cannot apply operator to non-numeric values")
       ELSE Arithmetic(num_left.t = "float" \/ num_right.t = "float", operator,
                       Halves(num_left), Halves(num_right))
  ELSE IF IsNumber(num_left) /\ IsNumber(num_right)
  THEN Ok(BoolV(NumberCompare(operator, Halves(num_left), Halves(num_right))))
  ELSE IF IsStr(num_left) /\ IsStr(num_right)
  THEN Ok(BoolV(StrCompare(operator, num_left.s, num_right.s)))
  ELSE IF IsBool(num_left) /\ IsBool(num_right)
  THEN Ok(BoolV(NumberCompare(operator, num_left.n, num_right.n)))
  ELSE IF operator = "==" THEN Ok(BoolV(FALSE))
  ELSE IF operator = "!=" THEN Ok(BoolV(TRUE))
  ELSE Raise("Cannot compare")

\* apply_binary_operation, after the logical operators: both operands go
\* through _to_numeric
ApplyNumeric(left, operator, right, nl, nr) ==
  IF nl.sig = "oob" \/ nr.sig = "oob" THEN Oob
  ELSE ApplyCoerced(left, operator, right, nl.val, nr.val)

\* Interpreter.apply_binary_operation
apply_binary_operation(left, operator, right) ==
  IF operator = "and" THEN Ok(BoolV(_is_truthy(left) /\ _is_truthy(right)))
  ELSE IF operator = "or" THEN Ok(BoolV(_is_truthy(left) \/ _is_truthy(right)))
  ELSE ApplyNumeric(left, operator, right, _to_numeric(left), _to_numeric(right))

\* apply_unary_operation, "-" and "+" on the operand after _to_numeric
UnaryNumeric(operator, no) ==
  IF no.sig = "oob" THEN Oob
  ELSE IF ~IsNumber(no.val)
  THEN Raise("Cannot apply unary operator to non-numeric value")
  ELSE IF operator = "-"
  THEN IF no.val.t = "float" /\ no.val.n = 0 THEN Oob
       ELSE Num(no.val.t = "float", -Halves(no.val))
  ELSE IF operator = "+" THEN Ok(no.val)
  ELSE Raise("Unknown unary operator")

\* Interpreter.apply_unary_operation
apply_unary_operation(operator, operand) ==
  IF operator = "not" THEN Ok(BoolV(~_is_truthy(operand)))
  ELSE UnaryNumeric(operator, _to_numeric(operand))

\* ---------------------------------------------------------------- syntax trees

\* an absent optional child (Python's None)
NoNode == [k |-> "None"]

\* Parser.parse_primary builds every number literal with float(): h halves
NumberLiteral(h) == [k |-> "NumberLiteral", value |-> FloatV(h)]
StringLiteral(cs) == [k |-> "StringLiteral", value |-> StrV(cs)]
BooleanLiteral(b) == [k |-> "BooleanLiteral", value |-> BoolV(b)]
Identifier(name) == [k |-> "Identifier", name |-> name]
BinaryOperation(left, operator, right) ==
  [k |-> "BinaryOperation", left |-> left, operator |-> operator, right |-> right]
UnaryOperation(operator, operand) ==
  [k |-> "UnaryOperation", operator |-> operator, operand |-> operand]
ParenthesizedExpression(expression) ==
  [k |-> "ParenthesizedExpression", expression |-> expression]
FunctionCall(name, arguments) ==
  [k |-> "FunctionCall", name |-> name, arguments |-> arguments]

SayStatement(expression) == [k |-> "SayStatement", expression |-> expression]
AssignmentStatement(identifier, expression) ==
  [k |-> "AssignmentStatement", identifier |-> identifier, expression |-> expression]
BlockStatement(statements) == [k |-> "BlockStatement", statements |-> statements]
FunctionDefinition(name, parameters, body) ==
  [k |-> "FunctionDefinition", name |-> name, parameters |-> parameters, body |-> body]
ReturnStatement(expression) == [k |-> "ReturnStatement", expression |-> expression]
IfStatement(condition, then_branch, else_branch) ==
  [k |-> "IfStatement", condition |-> condition, then_branch |-> then_branch,
   else_branch |-> else_branch]
WhileStatement(condition, body) ==
  [k |-> "WhileStatement", condition |-> condition, body |-> body]
ForStatement(variable, start, end, step, body) ==
  [k |-> "ForStatement", variable |-> variable, start |-> start, end |-> end,
   step |-> step, body |-> body]

\* ---------------------------------------------------------------- interpreter

\* The state of a run: the fields of Interpreter and Environment; sig and msg,
\* the RuntimeError in flight ("err") or the run leaving the model ("oob");
\* fuel, the loop iterations and calls left; depth, the call_function
\* activations that have not returned; globals, the bindings made outside
\* every call; the logs of what the run did.
Throw(s, m) == [s EXCEPT !.sig = "err", !.msg = m]
LeaveModel(s) == [s EXCEPT !.sig = "oob"]
Running(s) == s.sig = "ok"

\* the outcome of an operator application carried into the run
Outcome(res, s) ==
  [val |-> res.val,
   st |-> IF res.sig = "ok" THEN s ELSE [s EXCEPT !.sig = res.sig, !.msg = res.msg]]

Failed(s) == [val |-> NoneV, st |-> s]

\* a wrong Environment.get: a name that is not bound reads as None
EnvironmentGetOrNone(name, s) ==
  [val |-> IF name \in DOMAIN s.variables THEN s.variables[name] ELSE NoneV, st |-> s]

\* Environment.get
EnvironmentGet(name, s) ==
  IF name \notin DOMAIN s.variables
  THEN Failed(Throw(s, "Undefined variable: '" \o name \o "'"))
  ELSE [val |-> s.variables[name], st |-> s]

\* Environment.set and Environment.define.  globals follows the bindings made
\* outside every function call: it is the map the top-level statements made.
EnvironmentSet(name, value, s) ==
  [s EXCEPT !.variables = (name :> value) @@ @,
            !.globals = IF s.depth = 0 THEN (name :> value) @@ @ ELSE @]

RECURSIVE evaluate_expression(_, _)
RECURSIVE execute_statement(_, _)
RECURSIVE call_function(_, _, _)
RECURSIVE BindParameters(_, _, _, _, _)
RECURSIVE BlockLoop(_, _, _)
RECURSIVE WhileLoop(_, _)
RECURSIVE ForLoop(_, _, _, _)

\* what the run keeps of one BinaryOperation: the operator, the value of the
\* left operand, whether the right operand was evaluated, whether it raised,
\* its value, and the result
LogBinary(s, operator, l, right_evaluated, right_raised, r, result) ==
  [s EXCEPT !.binlog = Append(@, [operator |-> operator, left |-> l,
                                  right_evaluated |-> right_evaluated,
                                  right_raised |-> right_raised,
                                  right |-> r, result |-> result])]

\* evaluate_expression, BinaryOperation: the operator applied to both values
BinaryApply(operator, l, r, res) ==
  [val |-> res.val,
   st |-> LogBinary(Outcome(res, r.st).st, operator, l.val, TRUE, FALSE, r.val, res.val)]

\* evaluate_expression, BinaryOperation: after the right operand
BinaryRight(operator, l, r) ==
  IF ~Running(r.st) THEN Failed(LogBinary(r.st, operator, l.val, TRUE, TRUE, NoneV, NoneV))
  ELSE BinaryApply(operator, l, r, apply_binary_operation(l.val, operator, r.val))

\* a wrong evaluate_expression: "and" and "or" decided by the left operand alone
BinaryLeftShortCircuit(expression, l) ==
  IF ~Running(l.st) THEN l
  ELSE IF expression.operator = "and" /\ ~_is_truthy(l.val) THEN [val |-> BoolV(FALSE), st |-> l.st]
  ELSE IF expression.operator = "or" /\ _is_truthy(l.val) THEN [val |-> BoolV(TRUE), st |-> l.st]
  ELSE BinaryRight(expression.operator, l, evaluate_expression(expression.right, l.st))

\* evaluate_expression, BinaryOperation: after the left operand, the right
\* operand is evaluated whatever the left one is
BinaryLeft(expression, l) ==
  IF ~Running(l.st) THEN l
  ELSE BinaryRight(expression.operator, l, evaluate_expression(expression.right, l.st))

\* evaluate_expression, UnaryOperation
UnaryApply(operator, o) ==
  IF ~Running(o.st) THEN o
  ELSE Outcome(apply_unary_operation(operator, o.val), o.st)

\* Interpreter.evaluate_expression
evaluate_expression(expression, s) ==
  CASE expression.k \in {"NumberLiteral", "StringLiteral", "BooleanLiteral"} ->
         [val |-> expression.value, st |-> s]
    [] expression.k = "Identifier" -> EnvironmentGet(expression.name, s)
    [] expression.k = "BinaryOperation" ->
         BinaryLeft(expression, evaluate_expression(expression.left, s))
    [] expression.k = "UnaryOperation" ->
         UnaryApply(expression.operator, evaluate_expression(expression.operand, s))
    [] expression.k = "ParenthesizedExpression" ->
         evaluate_expression(expression.expression, s)
    [] expression.k = "FunctionCall" ->
         call_function(expression.name, expression.arguments, s)
    [] expression.k = "InputCall" -> Failed(LeaveModel(s))
    [] OTHER -> Failed(Throw(s, "Unknown expression type"))

\* call_function, one round of the loop over zip(parameters, arguments): a is
\* the argument evaluated in the live map, which holds the parameters bound
\* before it; c is, for the log, the argument evaluated in the variable map
\* of the call's entry
BindOne(parameters, arguments, i, a, c, entry_variables) ==
  IF ~Running(a.st) THEN a.st
  ELSE BindParameters(parameters, arguments, i + 1,
         [EnvironmentSet(parameters[i], a.val, a.st) EXCEPT
            !.bindlog = Append(@, [param |-> parameters[i], value |-> a.val,
                                   caller_ok |-> Running(c.st), caller_value |-> c.val])],
         entry_variables)

\* call_function, the loop over zip(parameters, arguments)
BindParameters(parameters, arguments, i, s, entry_variables) ==
  IF i > Len(parameters) THEN s
  ELSE BindOne(parameters, arguments, i,
               evaluate_expression(arguments[i], s),
               evaluate_expression(arguments[i], [s EXCEPT !.variables = entry_variables]),
               entry_variables)

\* a wrong call_function: the variable map of the entry is not put back
RestoreNothing(s, old_variables) == [s EXCEPT !.should_return = FALSE]

\* call_function, after the body: the variable map of the entry is put back
\* and the flag is lowered
RestoreEnvironment(s, old_variables) ==
  [s EXCEPT !.variables = old_variables, !.should_return = FALSE]

\* what the run keeps of one step: what was done, at which depth of calls,
\* whether a return was pending then, the loop it belongs to and its value
Step(s, event, node, value) ==
  [s EXCEPT !.steps = Append(@, [event |-> event, depth |-> s.depth,
                                 pending |-> s.should_return, node |-> node,
                                 value |-> value])]

\* what the run keeps of one call that returned: the maps at its entry, at
\* the end of its body and at its exit, and its result
LogCall(name, entry, body, restored) ==
  [Step(restored, "exit", NoNode, body.return_value) EXCEPT !.depth = @ - 1,
     !.calllog = Append(@, [name |-> name, entry |-> entry.variables,
                            body_end |-> body.variables, exit |-> restored.variables,
                            functions_entry |-> entry.functions,
                            functions_body_end |-> body.functions,
                            functions_exit |-> restored.functions,
                            result |-> body.return_value])]

\* call_function, from the body's end: the return value is taken
CallReturn(name, entry, body) ==
  IF ~Running(body) THEN Failed(body)
  ELSE [val |-> body.return_value,
        st |-> LogCall(name, entry, body, RestoreEnvironment(body, entry.variables))]

\* call_function, from the bound parameters: the flags are reset and the body runs
CallBody(name, function, entry, bound) ==
  IF ~Running(bound) THEN Failed(bound)
  ELSE CallReturn(name, entry,
         execute_statement(function.body,
           Step([bound EXCEPT !.should_return = FALSE, !.return_value = NoneV],
                "enter", NoNode, NoneV)))

\* the run enters a call: old_variables = self.environment.variables.copy()
EnterCall(s) == [s EXCEPT !.fuel = @ - 1, !.depth = @ + 1]

\* Interpreter.call_function
call_function(name, arguments, s) ==
  IF name \notin DOMAIN s.functions
  THEN Failed(Throw(s, "Undefined function: '" \o name \o "'"))
  ELSE IF Len(arguments) # Len(s.functions[name].parameters)
  THEN Failed(Throw(s, "Function '" \o name \o "' got a wrong number of arguments"))
  ELSE IF s.fuel = 0 THEN Failed(LeaveModel(s))
  ELSE CallBody(name, s.functions[name], s,
         BindParameters(s.functions[name].parameters, arguments, 1, EnterCall(s),
                        s.variables))

\* execute_block_statement, from one statement to the next
BlockNext(statements, i, s1) ==
  IF ~Running(s1) THEN s1 ELSE BlockLoop(statements, i + 1, s1)

\* execute_block_statement: the statements in order, none once should_return is set
BlockLoop(statements, i, s) ==
  IF i > Len(statements) \/ s.should_return THEN s
  ELSE BlockNext(statements, i, execute_statement(statements[i], s))

\* execute_while_statement, after the body
WhileNext(statement, b) ==
  IF ~Running(b) THEN b ELSE WhileLoop(statement, b)

\* a wrong execute_while_statement: the loop is left once a return is pending
WhileBodyUntilReturn(statement, c) ==
  IF ~Running(c.st) THEN c.st
  ELSE IF c.st.should_return THEN c.st
  ELSE IF ~_is_truthy(c.val) THEN Step(c.st, "test", statement, BoolV(FALSE))
  ELSE IF c.st.fuel = 0 THEN LeaveModel(c.st)
  ELSE WhileNext(statement,
         execute_statement(statement.body,
           Step(Step([c.st EXCEPT !.fuel = @ - 1], "test", statement, BoolV(TRUE)),
                "body", statement, NoneV)))

\* execute_while_statement, after the condition
WhileBody(statement, c) ==
  IF ~Running(c.st) THEN c.st
  ELSE IF ~_is_truthy(c.val) THEN Step(c.st, "test", statement, BoolV(FALSE))
  ELSE IF c.st.fuel = 0 THEN LeaveModel(c.st)
  ELSE WhileNext(statement,
         execute_statement(statement.body,
           Step(Step([c.st EXCEPT !.fuel = @ - 1], "test", statement, BoolV(TRUE)),
                "body", statement, NoneV)))

\* Interpreter.execute_while_statement
WhileLoop(statement, s) ==
  WhileBody(statement, evaluate_expression(statement.condition, s))

\* a wrong execute_for_statement: the loop variable is set once, before the loop
ForNextKeepingVariable(statement, next, bounds, b) ==
  IF ~Running(b) THEN b
  ELSE IF next.sig # "ok" THEN LeaveModel(b)
  ELSE ForLoop(statement, next.val, bounds, b)

\* execute_for_statement, after the body: start_num += step_num, and the
\* loop variable is set again
ForNext(statement, next, bounds, b) ==
  IF ~Running(b) THEN b
  ELSE IF next.sig # "ok" THEN LeaveModel(b)
  ELSE ForLoop(statement, next.val, bounds, EnvironmentSet(statement.variable, next.val, b))

\* a wrong execute_for_statement: the end of the range is left out
ForLoopExclusive(statement, counter, bounds, s) ==
  IF ~(IF Halves(bounds.step) > 0 THEN Halves(counter) < Halves(bounds.end)
       ELSE Halves(counter) > Halves(bounds.end))
  THEN Step(s, "test", statement, BoolV(FALSE))
  ELSE IF s.fuel = 0 THEN LeaveModel(s)
  ELSE ForNext(statement,
               Num(counter.t = "float" \/ bounds.step.t = "float",
                   Halves(counter) + Halves(bounds.step)),
               bounds,
               execute_statement(statement.body,
                 Step(Step([s EXCEPT !.fuel = @ - 1], "test", statement, BoolV(TRUE)),
                      "body", statement, NoneV)))

\* execute_for_statement, the two counting loops; the numbers are in halves
ForLoop(statement, counter, bounds, s) ==
  IF ~(IF Halves(bounds.step) > 0 THEN Halves(counter) <= Halves(bounds.end)
       ELSE Halves(counter) >= Halves(bounds.end))
  THEN Step(s, "test", statement, BoolV(FALSE))
  ELSE IF s.fuel = 0 THEN LeaveModel(s)
  ELSE ForNext(statement,
               Num(counter.t = "float" \/ bounds.step.t = "float",
                   Halves(counter) + Halves(bounds.step)),
               bounds,
               execute_statement(statement.body,
                 Step(Step([s EXCEPT !.fuel = @ - 1], "test", statement, BoolV(TRUE)),
                      "body", statement, NoneV)))

\* execute_for_statement, from the three numbers: the loop variable is set,
\* then the direction is chosen
ForStart(statement, start_num, end_num, step_num, s) ==
  IF "oob" \in {start_num.sig, end_num.sig, step_num.sig} THEN LeaveModel(s)
  ELSE IF ~IsNumber(start_num.val) \/ ~IsNumber(end_num.val) \/ ~IsNumber(step_num.val)
  THEN Throw(s, "For loop requires numeric values for start, end, and step")
  ELSE IF Halves(step_num.val) = 0
  THEN Throw(EnvironmentSet(statement.variable, start_num.val, s),
             "For loop step cannot be zero")
  ELSE ForLoop(statement, start_num.val, [end |-> end_num.val, step |-> step_num.val],
               EnvironmentSet(statement.variable, start_num.val, s))

\* execute_for_statement, after the step expression
ForStep(statement, a, e, p) ==
  IF ~Running(p.st) THEN p.st
  ELSE ForStart(statement, _to_numeric(a.val), _to_numeric(e.val), _to_numeric(p.val), p.st)

\* execute_for_statement, after the end expression: the step is 1 when absent
ForEnd(statement, a, e) ==
  IF ~Running(e.st) THEN e.st
  ELSE ForStep(statement, a, e,
               IF statement.step = NoNode THEN [val |-> IntV(1), st |-> e.st]
               ELSE evaluate_expression(statement.step, e.st))

\* execute_for_statement, after the start expression
ForBegin(statement, a) ==
  IF ~Running(a.st) THEN a.st
  ELSE ForEnd(statement, a, evaluate_expression(statement.end, a.st))

\* Interpreter.execute_for_statement
execute_for_statement(statement, s) ==
  ForBegin(statement, evaluate_expression(statement.start, s))

\* execute_return_statement, after the expression
ReturnValue(v) ==
  IF ~Running(v.st) THEN v.st
  ELSE [Step(v.st, "return", NoNode, v.val) EXCEPT
          !.return_value = v.val, !.should_return = TRUE]

\* Interpreter.execute_return_statement
execute_return_statement(statement, s) ==
  IF statement.expression # NoNode
  THEN ReturnValue(evaluate_expression(statement.expression, s))
  ELSE [Step(s, "return", NoNode, NoneV) EXCEPT
          !.return_value = NoneV, !.should_return = TRUE]

\* execute_say_statement, after the expression: str(value) is appended
SayValue(v) ==
  IF ~Running(v.st) THEN v.st
  ELSE [Step(v.st, "say", NoNode, v.val) EXCEPT
          !.output = Append(@, PyStr(v.val)), !.saylog = Append(@, v.val)]

\* Interpreter.execute_say_statement
execute_say_statement(statement, s) ==
  SayValue(evaluate_expression(statement.expression, s))

\* execute_assignment_statement, after the expression
AssignValue(identifier, v) ==
  IF ~Running(v.st) THEN v.st
  ELSE EnvironmentSet(identifier, v.val, Step(v.st, "assign", NoNode, v.val))

\* Interpreter.execute_assignment_statement
execute_assignment_statement(statement, s) ==
  AssignValue(statement.identifier, evaluate_expression(statement.expression, s))

\* execute_if_statement, after the condition
IfBranch(statement, c) ==
  IF ~Running(c.st) THEN c.st
  ELSE IF _is_truthy(c.val) THEN execute_statement(statement.then_branch, c.st)
  ELSE IF statement.else_branch # NoNode THEN execute_statement(statement.else_branch, c.st)
  ELSE c.st

\* Interpreter.execute_if_statement
execute_if_statement(statement, s) ==
  IfBranch(statement, evaluate_expression(statement.condition, s))

\* Interpreter.execute_function_definition
execute_function_definition(statement, s) ==
  [s EXCEPT !.functions = (statement.name :> statement) @@ @]

\* Interpreter.execute_statement
execute_statement(statement, s) ==
  CASE statement.k = "FunctionDefinition" -> execute_function_definition(statement, s)
    [] statement.k = "IfStatement" -> execute_if_statement(statement, s)
    [] statement.k = "WhileStatement" -> WhileLoop(statement, s)
    [] statement.k = "ForStatement" -> execute_for_statement(statement, s)
    [] statement.k = "SayStatement" -> execute_say_statement(statement, s)
    [] statement.k = "AssignmentStatement" -> execute_assignment_statement(statement, s)
    [] statement.k = "BlockStatement" -> BlockLoop(statement.statements, 1, s)
    [] statement.k = "ReturnStatement" -> execute_return_statement(statement, s)
    [] OTHER -> Throw(s, "Unknown statement type")

\* the line interpret() appends for a caught RuntimeError: the marker, then
\* the message of the exception
ErrorPrefix == "Runtime error: "
ErrorLine(m) == <<ErrorPrefix, m>>
IsErrorLine(line) == line # <<>> /\ line[1] = ErrorPrefix

\* interpret(), the except clause: the error line is appended to the output
CatchRuntimeError(ran) ==
  IF ran.sig = "err"
  THEN [ran EXCEPT !.output = Append(@, ErrorLine(ran.msg)), !.sig = "ok", !.raised = TRUE]
  ELSE ran

RECURSIVE TopLevelLoop(_, _, _)

\* a wrong interpret(): the try block inside the loop, so that the statements
\* after the one that raised still run
TopLevelNextInsideTry(statements, i, s1) ==
  IF s1.sig = "oob" THEN s1
  ELSE IF s1.sig = "err" THEN TopLevelLoop(statements, i + 1, CatchRuntimeError(s1))
  ELSE TopLevelLoop(statements, i + 1, [s1 EXCEPT !.completed = s1.variables])

\* interpret(), from one top-level statement to the next.  completed is the
\* variable map after the last statement that ended without raising.
TopLevelNext(statements, i, s1) ==
  IF ~Running(s1) THEN s1
  ELSE TopLevelLoop(statements, i + 1, [s1 EXCEPT !.completed = s1.variables])

\* interpret(), the loop in the try block: statement after statement until one
\* raises.  nstarted counts the statements begun.
TopLevelLoop(statements, i, s) ==
  IF i > Len(statements) THEN s
  ELSE TopLevelNext(statements, i, execute_statement(statements[i], [s EXCEPT !.nstarted = i]))

\* Interpreter.interpret
interpret(program, s) ==
  CatchRuntimeError(TopLevelLoop(program, 1, [s EXCEPT !.output = <<>>]))

\* ---------------------------------------------------------------- state

VARIABLES
  variables,      \* Environment.variables
  functions,      \* Environment.functions
  output,         \* Interpreter.output
  return_value,   \* Interpreter.return_value
  should_return,  \* Interpreter.should_return
  ncalls,         \* interpret() calls made so far
  last            \* what the last operation was and what it did

vars == <<variables, functions, output, return_value, should_return, ncalls, last>>

\* no binding: the empty map
Empty == [n \in {} |-> NoneV]

\* the run state an operation starts from
RunState(vs, fs, out, rv, sr) ==
  [variables |-> vs, functions |-> fs, output |-> out, return_value |-> rv,
   should_return |-> sr, sig |-> "ok", msg |-> "", fuel |-> MaxFuel, depth |-> 0,
   globals |-> vs, nstarted |-> 0, completed |-> vs, raised |-> FALSE,
   binlog |-> <<>>, bindlog |-> <<>>, calllog |-> <<>>, saylog |-> <<>>,
   steps |-> <<>>]

Here == RunState(variables, functions, output, return_value, should_return)

\* Interpreter.__init__ and Environment.__init__
Init ==
  /\ variables = Empty
  /\ functions = Empty
  /\ output = <<>>
  /\ return_value = NoneV
  /\ should_return = FALSE
  /\ ncalls = 0
  /\ last = [op |-> "init", program |-> <<>>, pre |-> RunState(Empty, Empty, <<>>, NoneV, FALSE),
             post |-> RunState(Empty, Empty, <<>>, NoneV, FALSE)]

\* the state after a run
Becomes(op, program, post) ==
  /\ post.sig # "oob"
  /\ variables' = post.variables
  /\ functions' = post.functions
  /\ output' = post.output
  /\ return_value' = post.return_value
  /\ should_return' = post.should_return
  /\ last' = [op |-> op, program |-> program, pre |-> Here, post |-> post]

\* ---------------------------------------------------------------- programs

\* the literal of the whole number i, as the parser builds it
Lit(i) == NumberLiteral(2 * i)
Var(name) == Identifier(name)
Bin(l, operator, r) == BinaryOperation(l, operator, r)
Block(statements) == BlockStatement(statements)
Kas(name, expression) == AssignmentStatement(name, expression)
Say(expression) == SayStatement(expression)
Call(name, arguments) == FunctionCall(name, arguments)
OneByZero == ParenthesizedExpression(Bin(Lit(1), "/", Lit(0)))

\* function f(x, y) { kas q = x  return y }
DefF == FunctionDefinition("f", <<"x", "y">>,
          Block(<<Kas("q", Var("x")), ReturnStatement(Var("y"))>>))
\* function g(x) { kas x = x + 1  kas q = 5  function n() { kas q = 1 }  return x }
DefG == FunctionDefinition("g", <<"x">>,
          Block(<<Kas("x", Bin(Var("x"), "+", Lit(1))), Kas("q", Lit(5)),
                  FunctionDefinition("n", <<>>, Block(<<Kas("q", Lit(1))>>)),
                  ReturnStatement(Var("x"))>>))
\* function h(x) { kas q = 2  say 1 / 0 }
DefH == FunctionDefinition("h", <<"x">>,
          Block(<<Kas("q", Lit(2)), Say(OneByZero)>>))
\* function k(y) { return h(y) }
DefK == FunctionDefinition("k", <<"y">>,
          Block(<<ReturnStatement(Call("h", <<Var("y")>>))>>))
\* function r() { say "a"  return  say "b" }
DefR == FunctionDefinition("r", <<>>,
          Block(<<Say(StringLiteral(<<"a">>)), ReturnStatement(NoNode),
                  Say(StringLiteral(<<"b">>))>>))
\* function w() { kas i = 0  while 1 / (1 - i) { kas i = 1  return 1 } }
DefW == FunctionDefinition("w", <<>>,
          Block(<<Kas("i", Lit(0)),
                  WhileStatement(
                    Bin(Lit(1), "/", ParenthesizedExpression(Bin(Lit(1), "-", Var("i")))),
                    Block(<<Kas("i", Lit(1)), ReturnStatement(Lit(1))>>))>>))

\* the programs of a session: each is the statement list of one interpret() call
Programs ==
  { <<Kas("x", Lit(1)), Say(Var("x"))>>,
    <<Kas("y", Lit(2)), Say(OneByZero), Kas("x", Lit(5))>>,
    <<Say(Var("y")), Kas("y", StringLiteral(<<"a">>))>>,
    <<ReturnStatement(NoNode), Kas("x", Lit(3))>>,
    <<Block(<<Kas("x", Lit(7)), Say(Var("x"))>>)>>,
    <<IfStatement(Var("x"), Block(<<Say(StringLiteral(<<"a">>))>>),
                  Block(<<Say(StringLiteral(<<"b">>))>>))>>,
    <<Kas("x", Lit(1)), DefF, Kas("y", Call("f", <<Lit(10), Var("x")>>))>>,
    <<Kas("y", Call("f", <<Lit(1), Lit(2)>>)), Say(Var("y"))>>,
    <<Kas("x", Lit(1)), DefG, Kas("y", Call("g", <<Lit(3)>>))>>,
    <<Kas("x", Lit(1)), DefH, Kas("y", Call("h", <<Lit(9)>>)), Say(Var("x"))>>,
    <<DefH, DefK, Kas("x", Call("k", <<Lit(3)>>))>>,
    <<DefR, Kas("x", Call("r", <<>>)), Say(Call("r", <<>>))>>,
    <<Say(Call("n", <<>>))>>,
    <<Kas("x", Lit(0)),
      WhileStatement(Bin(Var("x"), "<", Lit(1)),
        Block(<<Kas("x", Bin(Var("x"), "+", Lit(1))), ReturnStatement(Lit(5)),
                Say(Var("x"))>>))>>,
    <<DefW, Kas("x", Call("w", <<>>))>>,
    <<Kas("x", Call("f", <<Lit(1)>>))>>,
    <<Kas("x", Call("f", <<OneByZero, Lit(1)>>))>>,
    <<Kas("y", Call("f", <<Lit(4), OneByZero>>))>>,
    <<ForStatement("x", Lit(1), Lit(2), NoNode, Block(<<Say(Var("x"))>>))>>,
    <<Kas("x", Bin(BooleanLiteral(FALSE), "and", OneByZero))>>,
    <<Kas("x", Bin(BooleanLiteral(TRUE), "or", Call("r", <<>>)))>>,
    <<Say(Bin(StringLiteral(<<"A", "g", "e", ":", " ">>), "+", Lit(5)))>> }

\* ---------------------------------------------------------------- operations

\* interpret(program) on the shared Interpreter
Interpret(program) ==
  /\ ncalls < MaxCalls
  /\ ncalls' = ncalls + 1
  /\ Becomes("interpret", program, interpret(program, Here))

\* a wrong reset: the pending return is not cleared
ResetKeepingReturn(s) ==
  [s EXCEPT !.variables = Empty, !.functions = Empty, !.output = <<>>,
            !.globals = Empty, !.completed = Empty]

\* Interpreter.reset and Environment.clear
reset(s) ==
  [s EXCEPT !.variables = Empty, !.functions = Empty, !.output = <<>>,
            !.return_value = NoneV, !.should_return = FALSE,
            !.globals = Empty, !.completed = Empty]

Reset ==
  /\ ncalls' = ncalls
  /\ Becomes("reset", <<>>, reset(Here))

Next ==
  \/ \E program \in Programs : Interpret(program)
  \/ Reset

Spec == Init /\ [][Next]_vars

\* ---------------------------------------------------------------- one expression

\* function s() { say "a"  return false }
DefS == FunctionDefinition("s", <<>>,
          Block(<<Say(StringLiteral(<<"a">>)), ReturnStatement(BooleanLiteral(FALSE))>>))
\* function t() { say "b"  return 1 }
DefT == FunctionDefinition("t", <<>>,
          Block(<<Say(StringLiteral(<<"b">>)), ReturnStatement(Lit(1))>>))

\* the operands of the expression programs: literals of every type, an
\* expression that raises, an unbound variable, calls that print
OperandExpressions ==
  { BooleanLiteral(FALSE), BooleanLiteral(TRUE), Lit(0), Lit(1),
    StringLiteral(<<>>), StringLiteral(<<"a">>), StringLiteral(<<"2">>),
    OneByZero, Var("u"), Call("s", <<>>), Call("t", <<>>) }

\* function s ...  function t ...  kas r = <left> <operator> <right>
ExpressionProgram(left, operator, right) ==
  <<DefS, DefT, Kas("r", Bin(left, operator, right))>>

\* the same operands evaluated one after the other as ordinary expressions
OperandsProgram(left, right) == <<DefS, DefT, Kas("l", left), Kas("r", right)>>

\* interpret() of one expression program on a new Interpreter
InterpretExpression ==
  \E left \in OperandExpressions, right \in OperandExpressions, operator \in Operators :
    /\ ncalls = 0
    /\ Interpret(ExpressionProgram(left, operator, right))

SpecEval == Init /\ [][InterpretExpression]_vars

\* ---------------------------------------------------------------- one operator

\* the values the operator is applied to
OperandTexts ==
  { <<>>, <<"a">>, <<"b">>, <<"a", "b">>, <<"2">>, <<"-", "1">>, <<" ", "2">>,
    <<"1", ".", "5">>, <<"2", ".">>, <<"t", "r", "u", "e">>, <<"A", "g", "e", ":", " ">> }

OperandValues ==
  {FloatV(h) : h \in -2..(2 * MaxOperand)} \cup {IntV(i) : i \in -1..MaxOperand}
    \cup {BoolV(TRUE), BoolV(FALSE), NoneV} \cup {StrV(cs) : cs \in OperandTexts}

\* a new Interpreter and the operands of one application
InitOps ==
  /\ variables = Empty
  /\ functions = Empty
  /\ output = <<>>
  /\ return_value = NoneV
  /\ should_return = FALSE
  /\ ncalls = 0
  /\ \E left \in OperandValues, right \in OperandValues, operator \in Operators :
       last = [op |-> "operands", left |-> left, operator |-> operator, right |-> right,
               res |-> Ok(NoneV)]

\* apply_binary_operation(left, operator, right)
ApplyBinaryOperation ==
  /\ last.op = "operands"
  /\ apply_binary_operation(last.left, last.operator, last.right).sig # "oob"
  /\ last' = [last EXCEPT !.op = "applied",
                          !.res = apply_binary_operation(last.left, last.operator, last.right)]
  /\ UNCHANGED <<variables, functions, output, return_value, should_return, ncalls>>

SpecOps == InitOps /\ [][ApplyBinaryOperation]_vars

\* ---------------------------------------------------------------- claims

\* the last operation was an interpret() call
Interpreted == last.op = "interpret"

\* interpret() of the first k statements of the last program, from the state
\* the last call started in
PrefixRun(k) == interpret(SubSeq(last.program, 1, k), last.pre)

ErrorLines(out) == {i \in 1..Len(out) : IsErrorLine(out[i])}

FreshRun ==
  interpret(last.program,
            RunState(last.pre.variables, last.pre.functions, <<>>, NoneV, FALSE))

\* C2: an interpret() call does what it does on a fresh Interpreter holding
\* the same variables and functions: the same output, the same variables and
\* functions afterwards
C2_InterpretStartsFresh ==
  Interpreted =>
    /\ FreshRun.sig # "oob"
    /\ FreshRun.output = output
    /\ FreshRun.variables = variables
    /\ FreshRun.functions = functions

\* C3: when a call returns, the variable map is the map of the call's entry,
\* whatever the parameters and the body's assignments made of it, and the
\* function table is the one the body left
C3_CallRestoresVariables ==
  \A i \in DOMAIN last.post.calllog :
    /\ last.post.calllog[i].exit = last.post.calllog[i].entry
    /\ last.post.calllog[i].functions_exit = last.post.calllog[i].functions_body_end

\* C3 witness: a call returned whose parameter had shadowed a variable, whose
\* body had bound a new variable and defined a function
C3_Witness ==
  \E i \in DOMAIN last.post.calllog :
    LET c == last.post.calllog[i]
    IN  /\ \E n \in DOMAIN c.entry : c.body_end[n] # c.entry[n]
        /\ DOMAIN c.body_end # DOMAIN c.entry
        /\ c.functions_body_end # c.functions_entry

\* C4: after interpret() the variable map is the map the statements outside
\* every function call made: no parameter and no assignment of a function body
\* is left in it
C4_NoBindingLeaksFromCall ==
  Interpreted => variables = last.post.globals

\* C5: the value bound to a parameter is the value its argument has in the
\* variable map of the call's entry
C5_ArgumentsInCallerEnvironment ==
  \A i \in DOMAIN last.post.bindlog :
    last.post.bindlog[i].caller_ok =>
      last.post.bindlog[i].value = last.post.bindlog[i].caller_value

IsUserValue(v) == v.t \in {"float", "int", "str", "bool"}

\* C6: every value in the variable map and every value say printed is a
\* number, a text or a boolean
C6_NoNoneValue ==
  /\ \A n \in DOMAIN variables : IsUserValue(variables[n])
  /\ \A i \in DOMAIN last.post.saylog : IsUserValue(last.post.saylog[i])

\* the two operands of the last expression program, evaluated one after the
\* other by assignments on the same Interpreter
SequentialRun ==
  interpret(OperandsProgram(last.program[3].expression.left,
                            last.program[3].expression.right), last.pre)

LogicalOperators == {"and", "or"}

\* the Boolean and/or of the truthiness of two values
LogicalResult(operator, l, r) ==
  BoolV(IF operator = "and" THEN _is_truthy(l) /\ _is_truthy(r)
        ELSE _is_truthy(l) \/ _is_truthy(r))

\* the run of "kas r = <left> and/or <right>" against the sequential run seq
SameAsSequential(operator, seq) ==
  /\ seq.sig = "ok"
  /\ output = seq.output
  /\ last.post.raised = seq.raised
  /\ ~seq.raised => variables["r"] = LogicalResult(operator, seq.variables["l"], seq.variables["r"])

\* C7: "and" and "or" evaluate the left and then the right operand whatever
\* the left one is: the output and the RuntimeError are those of evaluating
\* the two operands one after the other, and when neither raises the result
\* is the Boolean and/or of their truthiness
C7_LogicalOperatorsEvaluateBoth ==
  (Interpreted /\ last.program[3].expression.operator \in LogicalOperators)
    => SameAsSequential(last.program[3].expression.operator, SequentialRun)

\* C7 witness: the left operand alone decides the result and the right
\* operand raises (false and (1 / 0), true or (1 / 0)) or prints
C7_Witness ==
  /\ Interpreted
  /\ \/ /\ last.program[3].expression.operator = "and"
        /\ last.program[3].expression.left = BooleanLiteral(FALSE)
     \/ /\ last.program[3].expression.operator = "or"
        /\ last.program[3].expression.left = BooleanLiteral(TRUE)
  /\ \/ last.program[3].expression.right = OneByZero /\ last.post.raised
     \/ last.program[3].expression.right = Call("s", <<>>) /\ output = <<<<"a">>>>

Comparisons == {"==", "!=", "<", ">", "<=", ">="}

\* the type of an operand after coercion: a boolean, a number (a number or
\* a text that parses as one), a text
CoercedKind(v) ==
  IF v.t = "bool" THEN "boolean"
  ELSE IF v.t = "none" THEN "none"
  ELSE IF _to_numeric(v).val.t \in {"int", "float"} THEN "number"
  ELSE "string"

Applied == last.op = "applied" /\ CoercedKind(last.left) # "none" /\ CoercedKind(last.right) # "none"

BothNumbers == CoercedKind(last.left) = "number" /\ CoercedKind(last.right) = "number"

\* the comparison of two operands of one coerced type
NativeCompare(operator, kind, left, right) ==
  IF kind = "number"
  THEN NumberCompare(operator, Halves(_to_numeric(left).val), Halves(_to_numeric(right).val))
  ELSE IF kind = "string" THEN StrCompare(operator, left.s, right.s)
  ELSE NumberCompare(operator, left.n, right.n)

\* C8: a comparison of operands of different coerced types is false for ==,
\* true for !=, a RuntimeError for <, >, <=, >=; operands of one coerced
\* type compare natively
C8_ComparisonByCoercedType ==
  (Applied /\ last.operator \in Comparisons) =>
    IF CoercedKind(last.left) # CoercedKind(last.right)
    THEN IF last.operator = "==" THEN last.res = Ok(BoolV(FALSE))
         ELSE IF last.operator = "!=" THEN last.res = Ok(BoolV(TRUE))
         ELSE last.res.sig = "err"
    ELSE last.res = Ok(BoolV(NativeCompare(last.operator, CoercedKind(last.left),
                                           last.left, last.right)))

\* C9: + is the numeric sum exactly when both operands are numbers after
\* coercion, and otherwise the text made of the string forms of the two
\* operands, booleans as true and false; "Age: " + 5 is the text "Age: 5"
C9_AdditionOrConcatenation ==
  (Applied /\ last.operator = "+") =>
    /\ IF BothNumbers
       THEN /\ last.res.sig = "ok"
            /\ last.res.val.t \in {"int", "float"}
            /\ Halves(last.res.val)
                 = Halves(_to_numeric(last.left).val) + Halves(_to_numeric(last.right).val)
       ELSE last.res = Ok(StrV(ConcatForm(last.left) \o ConcatForm(last.right)))
    /\ (last.left = StrV(<<"A", "g", "e", ":", " ">>) /\ last.right = FloatV(10))
         => last.res = Ok(StrV(<<"A", "g", "e", ":", " ", "5">>))

\* C10: -, *, /, % raise unless both operands are numbers after coercion;
\* on numbers only / and % by zero raise, with "Division by zero" and
\* "Modulo by zero"
C10_ArithmeticRaises ==
  (Applied /\ last.operator \in {"-", "*", "/", "%"}) =>
    IF ~BothNumbers THEN last.res.sig = "err"
    ELSE IF last.operator = "/" /\ Halves(_to_numeric(last.right).val) = 0
    THEN last.res = Raise("Division by zero")
    ELSE IF last.operator = "%" /\ Halves(_to_numeric(last.right).val) = 0
    THEN last.res = Raise("Modulo by zero")
    ELSE last.res.sig = "ok"

\* ---------------------------------------------------------------- one program

\* the expression the parser builds for the number of h halves: a literal,
\* under a unary minus when negative
Number(h) == IF h < 0 THEN UnaryOperation("-", NumberLiteral(-h)) ELSE NumberLiteral(h)

\* the values truthiness is taken of
TruthOperands ==
  (OperandValues \ {NoneV}) \cup {StrV(<<"0">>), StrV(<<" ">>), StrV(<<"f", "a", "l", "s", "e">>)}

\* an expression whose value is v: a literal, or for an int the sum of two
\* texts of digits
ValueExpression(v) ==
  CASE v.t = "float" -> Number(v.n)
    [] v.t = "bool" -> BooleanLiteral(v.n = 1)
    [] v.t = "str" -> StringLiteral(v.s)
    [] v.t = "int" -> Bin(StringLiteral(PyStr(v)), "+", StringLiteral(<<"0">>))

\* kas v = <v>  kas r = not v  if v { say "t" } else { say "f" }
\* while v { say "w"  kas v = false }
TruthProgram(v) ==
  <<Kas("v", ValueExpression(v)),
    Kas("r", UnaryOperation("not", Var("v"))),
    IfStatement(Var("v"), Block(<<Say(StringLiteral(<<"t">>))>>),
                Block(<<Say(StringLiteral(<<"f">>))>>)),
    WhileStatement(Var("v"),
      Block(<<Say(StringLiteral(<<"w">>)), Kas("v", BooleanLiteral(FALSE))>>))>>

\* function t ...  for kas i = <start> to <end> [step <step>] { say i  kas i = 0 }
ForProgram(start, end, step) ==
  <<DefT, ForStatement("i", start, end, step, Block(<<Say(Var("i")), Kas("i", Lit(0))>>))>>

\* the bounds of the counting loops: whole numbers, and a call that prints
LoopBounds == {Number(2 * i) : i \in -1..MaxCount} \cup {Call("t", <<>>)}

\* the steps: absent, halves and whole numbers of both signs, zero, a call
LoopSteps == {NoNode, Call("t", <<>>)} \cup {Number(h) : h \in -4..4}

ForPrograms ==
  {ForProgram(start, end, step) : start \in LoopBounds, end \in LoopBounds, step \in LoopSteps}
    \cup {ForProgram(Lit(10), Lit(1), Number(-2)), ForProgram(Lit(1), Lit(5), NoNode)}

\* function factorial(n) { if n <= 1 { return 1 } return n * factorial(n - 1) },
\* or with the operands of * swapped
DefFactorial(swapped) ==
  FunctionDefinition("factorial", <<"n">>,
    Block(<<IfStatement(Bin(Var("n"), "<=", Lit(1)), Block(<<ReturnStatement(Lit(1))>>), NoNode),
            ReturnStatement(
              IF swapped
              THEN Bin(Call("factorial", <<Bin(Var("n"), "-", Lit(1))>>), "*", Var("n"))
              ELSE Bin(Var("n"), "*", Call("factorial", <<Bin(Var("n"), "-", Lit(1))>>)))>>))

\* function factorial ...  kas n = 7  say factorial(<k>)  say n
FactorialProgram(k, swapped) ==
  <<DefFactorial(swapped), Kas("n", Lit(7)), Say(Call("factorial", <<Lit(k)>>)), Say(Var("n"))>>

\* the argument lists of the calls whose name is resolved
ArgumentLists ==
  { <<>>, <<Call("t", <<>>)>>, <<Call("t", <<>>), Call("t", <<>>)>>, <<Lit(1)>>,
    <<Var("u")>>, <<Lit(1), Lit(2)>>, <<OneByZero, Call("t", <<>>)>> }

\* kas x = 1  function t ...  function f ...  kas y = <name>(<arguments>)
CallProgram(name, arguments) ==
  <<Kas("x", Lit(1)), DefT, DefF, Kas("y", Call(name, arguments))>>

\* kas x = 1  kas x = <name>  say x
IdentifierProgram(name) == <<Kas("x", Lit(1)), Kas("x", Var(name)), Say(Var("x"))>>

\* kas x = 1  say t()  function t ...
HoistingProgram == <<Kas("x", Lit(1)), Say(Call("t", <<>>)), DefT>>

\* if <name> == <at> { return <name> }
ReturnAt(name, at) ==
  IfStatement(Bin(Var(name), "==", Lit(at)), Block(<<ReturnStatement(Var(name))>>), NoNode)

\* for kas i = 1 to <end> { say i  if i == <at> { return i }  say "rest" }
ReturnInFor(end, at) ==
  ForStatement("i", Lit(1), Lit(end), NoNode,
    Block(<<Say(Var("i")), ReturnAt("i", at), Say(StringLiteral(<<"r", "e", "s", "t">>))>>))

\* function f() { for kas i = 1 to <end> { ... }  say "after" }  say f()  say "done"
ReturnInForProgram(end, at) ==
  <<FunctionDefinition("f", <<>>,
      Block(<<ReturnInFor(end, at), Say(StringLiteral(<<"a", "f", "t", "e", "r">>))>>)),
    Say(Call("f", <<>>)),
    Say(StringLiteral(<<"d", "o", "n", "e">>))>>

\* while n < <end> { kas n = n + 1  if n == <at> { return n }  say "rest" }
ReturnInWhile(end, at) ==
  WhileStatement(Bin(Var("n"), "<", Lit(end)),
    Block(<<Kas("n", Bin(Var("n"), "+", Lit(1))), ReturnAt("n", at),
            Say(StringLiteral(<<"r", "e", "s", "t">>))>>))

\* function g() { kas n = 0  while n < <end> { ... }  say "after" }  say g()  say "done"
ReturnInWhileProgram(end, at) ==
  <<FunctionDefinition("g", <<>>,
      Block(<<Kas("n", Lit(0)), ReturnInWhile(end, at),
              Say(StringLiteral(<<"a", "f", "t", "e", "r">>))>>)),
    Say(Call("g", <<>>)),
    Say(StringLiteral(<<"d", "o", "n", "e">>))>>

\* function lt(x) { return x < <end> }
\* function h() { kas n = 0  while lt(n) { kas n = n + 1  say n  return n  say "rest" }
\*                say "after" }
\* say h()
ReturnThenCallProgram(end) ==
  <<FunctionDefinition("lt", <<"x">>,
      Block(<<ReturnStatement(Bin(Var("x"), "<", Lit(end)))>>)),
    FunctionDefinition("h", <<>>,
      Block(<<Kas("n", Lit(0)),
              WhileStatement(Call("lt", <<Var("n")>>),
                Block(<<Kas("n", Bin(Var("n"), "+", Lit(1))), Say(Var("n")),
                        ReturnStatement(Var("n")),
                        Say(StringLiteral(<<"r", "e", "s", "t">>))>>)),
              Say(StringLiteral(<<"a", "f", "t", "e", "r">>))>>)),
    Say(Call("h", <<>>))>>

\* the programs that return from inside a loop: at every iteration of a loop
\* of up to MaxCount iterations, and at none, and with a call in the
\* condition of the loop
ReturnPrograms ==
  {ReturnInForProgram(end, at) : end \in 0..MaxCount, at \in 1..(MaxCount + 1)}
    \cup {ReturnInWhileProgram(end, at) : end \in 0..MaxCount, at \in 1..(MaxCount + 1)}
    \cup {ReturnThenCallProgram(end) : end \in 0..MaxCount}

RunPrograms ==
  {TruthProgram(v) : v \in TruthOperands} \cup ForPrograms \cup ReturnPrograms
    \cup {FactorialProgram(k, swapped) : k \in 0..MaxFactorial, swapped \in BOOLEAN}
    \cup {CallProgram(name, arguments) : name \in {"n", "t", "f"}, arguments \in ArgumentLists}
    \cup {IdentifierProgram(name) : name \in {"u", "x"}}
    \cup {HoistingProgram}

\* interpret() of one program on a new Interpreter
InterpretProgram ==
  \E program \in RunPrograms :
    /\ ncalls = 0
    /\ Interpret(program)

SpecRun == Init /\ [][InterpretProgram]_vars

\* the stated table of truthiness
TruthTable(v) ==
  CASE v.t = "bool" -> v.n = 1
    [] v.t \in {"int", "float"} -> v.n # 0
    [] v.t = "str" -> v.s # <<>>

\* C11: truthiness follows the table (false, 0 and the empty text are false,
\* every other boolean, number and text is true, the text "0" too); not v is
\* its negation and does not raise; if and while branch by the same rule
C11_TruthinessTable ==
  \A v \in TruthOperands :
    (Interpreted /\ last.program = TruthProgram(v)) =>
      /\ ~last.post.raised
      /\ variables["r"] = BoolV(~TruthTable(v))
      /\ output = IF TruthTable(v) THEN <<<<"t">>, <<"w">>>> ELSE <<<<"f">>>>

\* C11 witness: the text "0" was taken as true by not, if and while
C11_Witness ==
  /\ Interpreted
  /\ last.program = TruthProgram(StrV(<<"0">>))
  /\ variables["r"] = BoolV(FALSE)
  /\ output = <<<<"t">>, <<"w">>>>

\* the number, in halves, a bound or step of a loop program stands for: t()
\* returns 1 and an absent step is 1
BoundHalves(e) ==
  IF e.k = "NumberLiteral" THEN e.value.n
  ELSE IF e.k = "UnaryOperation" THEN -e.operand.value.n
  ELSE 2

\* what evaluating a bound or step once prints: t() says "b"
BoundPrints(e) == IF e.k = "FunctionCall" THEN <<<<"b">>>> ELSE <<>>

\* the lines say i prints for i = a, a+s, a+2s, ... up (or down) to b
RECURSIVE CounterLines(_, _, _)
CounterLines(i, b, s) ==
  IF (s > 0 /\ i <= b) \/ (s < 0 /\ i >= b)
  THEN <<PyStr(FloatV(i))>> \o CounterLines(i + s, b, s)
  ELSE <<>>

IsForProgram == Interpreted /\ Len(last.program) = 2 /\ last.program[2].k = "ForStatement"

\* C12: a for loop evaluates start, end and step once each, then runs its
\* body for i = a, a+s, ... while i <= b (s > 0) or i >= b (s < 0), with the
\* loop variable holding the counter at the start of each body execution
\* even if the body assigned it; a zero step raises and the body never runs
C12_ForLoopCounts ==
  IsForProgram =>
    /\ last.post.raised = (BoundHalves(last.program[2].step) = 0)
    /\ output = BoundPrints(last.program[2].start) \o BoundPrints(last.program[2].end)
                  \o BoundPrints(last.program[2].step)
                  \o (IF BoundHalves(last.program[2].step) = 0
                      THEN <<ErrorLine("For loop step cannot be zero")>>
                      ELSE CounterLines(BoundHalves(last.program[2].start),
                                        BoundHalves(last.program[2].end),
                                        BoundHalves(last.program[2].step)))

\* C12 witness: for kas i = 10 to 1 step -1 ran its body ten times
C12_Witness ==
  /\ IsForProgram
  /\ last.program = ForProgram(Lit(10), Lit(1), Number(-2))
  /\ Len(output) = 10
  /\ output[1] = PyStr(FloatV(20)) /\ output[10] = PyStr(FloatV(2))

RECURSIVE Factorial(_)
Factorial(k) == IF k <= 1 THEN 1 ELSE k * Factorial(k - 1)

\* the run of factorial(k): the result, the global n, and the calls in the
\* order they returned, innermost first
FactorialRun(k) ==
  /\ ~last.post.raised
  /\ output = <<PyStr(FloatV(2 * Factorial(k))), PyStr(FloatV(14))>>
  /\ Len(last.post.calllog) = (IF k = 0 THEN 1 ELSE k)
  /\ \A j \in DOMAIN last.post.calllog :
       /\ last.post.calllog[j].body_end["n"] = FloatV(IF k = 0 THEN 0 ELSE 2 * j)
       /\ last.post.calllog[j].exit["n"]
            = FloatV(IF j = Len(last.post.calllog) THEN 14 ELSE 2 * (j + 1))

\* C13: factorial(k) is k!, and when a call returns, n holds again the value
\* of the activation that made the call (the global n after the outermost)
C13_RecursionRestoresParameters ==
  \A k \in 0..MaxFactorial, swapped \in BOOLEAN :
    (Interpreted /\ last.program = FactorialProgram(k, swapped)) => FactorialRun(k)

\* C13 witness: factorial(4) printed 24 from the body that reads n after
\* the inner call returned
C13_Witness ==
  /\ Interpreted
  /\ last.program = FactorialProgram(4, TRUE)
  /\ output[1] = <<"2", "4", ".", "0">>
  /\ Len(last.post.calllog) = 4

\* the run stopped on one RuntimeError before printing or binding anything
\* after kas x = 1
OnlyErrorAfterX ==
  /\ last.post.raised
  /\ Len(output) = 1 /\ IsErrorLine(output[1])
  /\ variables = ("x" :> FloatV(2))

\* C14: an unbound identifier raises "Undefined variable: ..."; a call of an
\* undefined name or with a wrong number of arguments raises with no
\* argument evaluated and the variable map unchanged; a function is in the
\* table only once its definition has executed
C14_NameResolutionErrors ==
  /\ \A name \in {"n", "t", "f"}, arguments \in ArgumentLists :
       (/\ Interpreted
        /\ last.program = CallProgram(name, arguments)
        /\ name = "n" \/ Len(arguments) # (IF name = "t" THEN 0 ELSE 2))
         => OnlyErrorAfterX /\ DOMAIN functions = {"t", "f"}
  /\ (Interpreted /\ last.program = IdentifierProgram("u"))
       => OnlyErrorAfterX /\ output[1] = ErrorLine("Undefined variable: 'u'")
  /\ (Interpreted /\ last.program = HoistingProgram)
       => OnlyErrorAfterX /\ functions = Empty

\* C14 witness: f, of two parameters, was called with the one argument t()
C14_Witness ==
  /\ Interpreted
  /\ last.program = CallProgram("f", <<Call("t", <<>>)>>)
  /\ OnlyErrorAfterX

\* interpret() of a program on an Interpreter just constructed
InitialRun(program) == interpret(program, RunState(Empty, Empty, <<>>, NoneV, FALSE))

\* C15: reset() leaves the Interpreter as it was constructed (no variable,
\* no function, no output, no pending return), so that interpret(P) right
\* after a reset gives the output and the variable map P gives on a new
\* Interpreter, whatever ran before the reset
C15_ResetRestoresInitialState ==
  [][/\ last'.op = "reset" =>
          /\ variables' = Empty /\ functions' = Empty /\ output' = <<>>
          /\ return_value' = NoneV /\ should_return' = FALSE
     /\ (last.op = "reset" /\ last'.op = "interpret") =>
          /\ output' = InitialRun(last'.program).output
          /\ variables' = InitialRun(last'.program).variables]_vars

\* C15 witness: a reset of an Interpreter that held variables, functions,
\* output and a pending return
C15_Witness ==
  /\ last.op = "reset"
  /\ last.pre.should_return
  /\ last.pre.variables # Empty
  /\ last.pre.output # <<>>

\* ---------------------------------------------------------------- lexer

\* a letter outside ASCII: a word character for \b, not an identifier character
NonAsciiLetter == "e-acute"

Letters ==
  {"a", "b", "c", "d", "e", "f", "g", "h", "i", "j", "k", "l", "m", "n", "o", "p", "q", "r", "s", "t", "u", "v", "w", "x", "y", "z",
   "A", "B", "C", "D", "E", "F", "G", "H", "I", "J", "K", "L", "M", "N", "O", "P", "Q", "R", "S", "T", "U", "V", "W", "X", "Y", "Z"}

DigitChars == {Digits[i] : i \in 1..Len(Digits)}

IdentifierChars == Letters \cup DigitChars \cup {"_"}

\* a wrong word boundary: one after every keyword
NoWordChars == {}

\* the characters \b takes as part of a word
WordChars == IdentifierChars \cup {NonAsciiLetter}

\* Lexer.token_patterns, in order: keyword\b, the literals' regular
\* expressions, the fixed texts of operators, delimiters and the newline
TokenPatterns ==
  << [kind |-> "keyword", text |-> <<"s", "a", "y">>, type |-> "SAY"],
     [kind |-> "keyword", text |-> <<"k", "a", "s">>, type |-> "KAS"],
     [kind |-> "keyword", text |-> <<"i", "f">>, type |-> "IF"],
     [kind |-> "keyword", text |-> <<"w", "h", "i", "l", "e">>, type |-> "WHILE"],
     [kind |-> "keyword", text |-> <<"f", "o", "r">>, type |-> "FOR"],
     [kind |-> "keyword", text |-> <<"f", "u", "n", "c", "t", "i", "o", "n">>, type |-> "FUNCTION"],
     [kind |-> "keyword", text |-> <<"r", "e", "t", "u", "r", "n">>, type |-> "RETURN"],
     [kind |-> "keyword", text |-> <<"i", "n", "p", "u", "t">>, type |-> "INPUT"],
     [kind |-> "keyword", text |-> <<"e", "l", "s", "e">>, type |-> "ELSE"],
     [kind |-> "keyword", text |-> <<"t", "r", "u", "e">>, type |-> "TRUE"],
     [kind |-> "keyword", text |-> <<"f", "a", "l", "s", "e">>, type |-> "FALSE"],
     [kind |-> "keyword", text |-> <<"a", "n", "d">>, type |-> "AND"],
     [kind |-> "keyword", text |-> <<"o", "r">>, type |-> "OR"],
     [kind |-> "keyword", text |-> <<"n", "o", "t">>, type |-> "NOT"],
     [kind |-> "number", text |-> <<>>, type |-> "NUMBER"],
     [kind |-> "string", text |-> <<"\"">>, type |-> "STRING"],
     [kind |-> "string", text |-> <<"'">>, type |-> "STRING"],
     [kind |-> "identifier", text |-> <<>>, type |-> "IDENTIFIER"],
     [kind |-> "literal", text |-> <<"=", "=">>, type |-> "EQ"],
     [kind |-> "literal", text |-> <<"!", "=">>, type |-> "NEQ"],
     [kind |-> "literal", text |-> <<"<", "=">>, type |-> "LTE"],
     [kind |-> "literal", text |-> <<">", "=">>, type |-> "GTE"],
     [kind |-> "literal", text |-> <<"=">>, type |-> "ASSIGN"],
     [kind |-> "literal", text |-> <<"+">>, type |-> "PLUS"],
     [kind |-> "literal", text |-> <<"-">>, type |-> "MINUS"],
     [kind |-> "literal", text |-> <<"*">>, type |-> "MULTIPLY"],
     [kind |-> "literal", text |-> <<"/">>, type |-> "DIVIDE"],
     [kind |-> "literal", text |-> <<"%">>, type |-> "MODULO"],
     [kind |-> "literal", text |-> <<"<">>, type |-> "LT"],
     [kind |-> "literal", text |-> <<">">>, type |-> "GT"],
     [kind |-> "literal", text |-> <<"(">>, type |-> "LPAREN"],
     [kind |-> "literal", text |-> <<")">>, type |-> "RPAREN"],
     [kind |-> "literal", text |-> <<"{">>, type |-> "LBRACE"],
     [kind |-> "literal", text |-> <<"}">>, type |-> "RBRACE"],
     [kind |-> "literal", text |-> <<",">>, type |-> "COMMA"],
     [kind |-> "literal", text |-> <<"\n">>, type |-> "NEWLINE"] >>

\* how many characters of text from index i on are in chars
RECURSIVE Run(_, _, _)
Run(text, i, chars) ==
  IF i <= Len(text) /\ text[i] \in chars THEN 1 + Run(text, i + 1, chars) ELSE 0

StartsWith(text, prefix) ==
  Len(prefix) <= Len(text) /\ SubSeq(text, 1, Len(prefix)) = prefix

\* \d+\.?\d* after the d digits of \d+
NumberTail(text, d) ==
  IF d = 0 THEN 0
  ELSE IF d < Len(text) /\ text[d + 1] = "." THEN d + 1 + Run(text, d + 2, DigitChars)
  ELSE d

\* q(?:[^q\\]|\\.)*q from index i on, after the opening quote q: the index
\* of the closing quote, 0 when there is none ("." is no newline)
RECURSIVE StringEnd(_, _, _)
StringEnd(text, i, q) ==
  IF i > Len(text) THEN 0
  ELSE IF text[i] = q THEN i
  ELSE IF text[i] # "\\" THEN StringEnd(text, i + 1, q)
  ELSE IF i + 1 > Len(text) \/ text[i + 1] = "\n" THEN 0
  ELSE StringEnd(text, i + 2, q)

\* re.match(pattern, remaining_source): the length of the match, 0 for none
MatchLength(pattern, text) ==
  CASE pattern.kind = "keyword" ->
         IF StartsWith(text, pattern.text)
            /\ (Len(text) = Len(pattern.text) \/ text[Len(pattern.text) + 1] \notin WordChars)
         THEN Len(pattern.text) ELSE 0
    [] pattern.kind = "literal" -> IF StartsWith(text, pattern.text) THEN Len(pattern.text) ELSE 0
    [] pattern.kind = "number" -> NumberTail(text, Run(text, 1, DigitChars))
    [] pattern.kind = "string" ->
         IF text[1] = pattern.text[1] THEN StringEnd(text, 2, pattern.text[1]) ELSE 0
    [] pattern.kind = "identifier" ->
         IF text[1] \in Letters \cup {"_"} THEN 1 + Run(text, 2, IdentifierChars) ELSE 0

RECURSIVE FirstMatch(_, _)

\* tokenize, the loop over token_patterns: the first pattern that matches
MatchOrNext(text, i, length) ==
  IF length > 0 THEN [type |-> TokenPatterns[i].type, length |-> length]
  ELSE FirstMatch(text, i + 1)

FirstMatch(text, i) ==
  IF i > Len(TokenPatterns) THEN [type |-> "UNKNOWN", length |-> 0]
  ELSE MatchOrNext(text, i, MatchLength(TokenPatterns[i], text))

Token(type, value, line, column) ==
  [type |-> type, value |-> value, line |-> line, column |-> column]

\* Lexer.__init__; position counts from 0; error is the LexerError raised;
\* starts keeps, for every token appended, the position it was appended at
Lexer(source_code) ==
  [source |-> source_code, position |-> 0, line |-> 1, column |-> 1, tokens |-> <<>>,
   starts |-> <<>>,
   error |-> [raised |-> FALSE, char |-> "", line |-> 0, column |-> 0]]

\* Lexer.current_char, None as the empty text
current_char(lx) ==
  IF lx.position >= Len(lx.source) THEN "" ELSE lx.source[lx.position + 1]

\* a wrong advance: the column is not set back at a newline
AdvanceKeepingColumn(lx) ==
  IF lx.position >= Len(lx.source) THEN lx
  ELSE IF lx.source[lx.position + 1] = "\n"
  THEN [lx EXCEPT !.line = @ + 1, !.column = @ + 1, !.position = @ + 1]
  ELSE [lx EXCEPT !.column = @ + 1, !.position = @ + 1]

\* Lexer.advance
advance(lx) ==
  IF lx.position >= Len(lx.source) THEN lx
  ELSE IF lx.source[lx.position + 1] = "\n"
  THEN [lx EXCEPT !.line = @ + 1, !.column = 1, !.position = @ + 1]
  ELSE [lx EXCEPT !.column = @ + 1, !.position = @ + 1]

\* for _ in range(n): self.advance()
RECURSIVE AdvanceBy(_, _)
AdvanceBy(lx, n) == IF n = 0 THEN lx ELSE AdvanceBy(advance(lx), n - 1)

\* Lexer.skip_whitespace
RECURSIVE skip_whitespace(_)
skip_whitespace(lx) ==
  IF current_char(lx) \in {" ", "\t", "\r"} THEN skip_whitespace(advance(lx)) ELSE lx

\* a wrong skip_comment: the newline that ends the comment is skipped too
RECURSIVE SkipCommentAndNewline(_)
SkipCommentAndNewline(lx) ==
  IF current_char(lx) = "" THEN lx
  ELSE IF current_char(lx) = "\n" THEN advance(lx)
  ELSE SkipCommentAndNewline(advance(lx))

\* Lexer.skip_comment, called on a "#"
RECURSIVE skip_comment(_)
skip_comment(lx) ==
  IF current_char(lx) \notin {"", "\n"} THEN skip_comment(advance(lx)) ELSE lx

RECURSIVE TokenizeLoop(_)

\* tokenize, from the match m at the position: the token is appended and the
\* position moved, or LexerError is raised for the character
EmitToken(lx, m) ==
  IF m.length = 0
  THEN [lx EXCEPT !.error = [raised |-> TRUE, char |-> current_char(lx),
                             line |-> lx.line, column |-> lx.column]]
  ELSE TokenizeLoop(
         AdvanceBy([lx EXCEPT !.tokens =
                      Append(@, Token(m.type,
                                      SubSeq(lx.source, lx.position + 1, lx.position + m.length),
                                      lx.line, lx.column)),
                               !.starts = Append(@, lx.position)],
                   m.length))

\* tokenize, one round of the loop after skip_whitespace
AfterWhitespace(lx) ==
  IF current_char(lx) = "" THEN lx
  ELSE IF current_char(lx) = "#" THEN TokenizeLoop(skip_comment(lx))
  ELSE EmitToken(lx, FirstMatch(SubSeq(lx.source, lx.position + 1, Len(lx.source)), 1))

\* tokenize, the loop while self.position < len(self.source)
TokenizeLoop(lx) ==
  IF lx.position >= Len(lx.source) THEN lx ELSE AfterWhitespace(skip_whitespace(lx))

\* tokenize, after the loop: the EOF token is appended unless LexerError was raised
AppendEOF(lx) ==
  IF lx.error.raised THEN lx
  ELSE [lx EXCEPT !.tokens = Append(@, Token("EOF", <<>>, lx.line, lx.column)),
                  !.starts = Append(@, lx.position)]

\* Lexer.tokenize
tokenize(lx) == AppendEOF(TokenizeLoop([lx EXCEPT !.tokens = <<>>, !.starts = <<>>]))

\* ---------------------------------------------------------------- one source text

\* the characters of the short source texts
SourceAlphabet == {"a", "s", "y", "5", ".", "=", "<", " ", "#", "\n", "\"", "\\", "_", "@"}

\* the source texts of at most n characters
RECURSIVE TextsUpTo(_)
TextsUpTo(n) ==
  IF n = 0 THEN {<<>>}
  ELSE TextsUpTo(n - 1)
         \cup {Append(text, c) : text \in {t \in TextsUpTo(n - 1) : Len(t) = n - 1},
                                 c \in SourceAlphabet}

\* longer source texts: statements, identifiers that start with a keyword,
\* two-character operators, strings and comments
ExampleSources ==
  { <<"k", "a", "s", " ", "x", " ", "=", " ", "5">>,
    <<"s", "a", "y", "e", "r">>,
    <<"i", "f", "_", "x">>,
    <<"f", "o", "r", "m", "a", "t">>,
    <<"o", "r", "d", "e", "r">>,
    <<"n", "o", "t", "e", "s">>,
    <<"s", "a", "y", " ", "x">>,
    <<"x", "<", "=", "5">>,
    <<"a", "!", "=", "b">>,
    <<"a", "=", "=", "b">>,
    <<"x", ">", "=", "1">>,
    <<"s", "a", "y", " ", "\"", "a", " ", "b", "\"", " ", "#", " ", "c", "\n", "k", "a", "s", " ", "y", "=", "2">>,
    <<"s", "a", "y", "\t", NonAsciiLetter>>,
    <<"s", "a", "y", NonAsciiLetter>>,
    <<"5", ".">>,
    <<"#", "c", "\n", "5">>,
    <<"'", "i", "t", "\\", "'", "s", "'">>,
    <<"\"", "a", "\n", "b", "\"", " ", "x">>,
    <<"\"", "a", "\\", "\n", "b", "\"">>,
    <<"x", " ", "#", " ", "c">>,
    <<"a", "<", "=", "=", "b">>,
    <<"s", "a", "y", "5">>,
    <<"5", "x">>,
    <<"k", "a", "s", " ", "x", "=", "1", "\n", "@">>,
    <<"3", ".", "1", "4", ".", "5">>,
    <<"s", "a", "y", " ", "\"", "#", "\"">>,
    <<"\r", "\n", " ", "x">>,
    <<"s", "a", "y", " ", "\"", "a", "\n", "b", "\"", " ", "#", " ", "c", "\n", " ", " ", "@">>,
    <<"t", "r", "u", "e", " ", "f", "a", "l", "s", "e", " ", "a", "n", "d", " ", "o", "r", " ", "n", "o", "t">> }

Sources == TextsUpTo(MaxSource) \cup ExampleSources

\* a new Interpreter, and a Lexer on one source text
InitLexer ==
  /\ variables = Empty
  /\ functions = Empty
  /\ output = <<>>
  /\ return_value = NoneV
  /\ should_return = FALSE
  /\ ncalls = 0
  /\ \E source \in Sources :
       last = [op |-> "Lexer", source |-> source, lexer |-> Lexer(source)]

\* Lexer.tokenize()
Tokenize ==
  /\ last.op = "Lexer"
  /\ last' = [op |-> "tokenize", source |-> last.source, lexer |-> tokenize(last.lexer)]
  /\ UNCHANGED <<variables, functions, output, return_value, should_return, ncalls>>

SpecLexer == InitLexer /\ [][Tokenize]_vars

\* a source text was tokenized without LexerError
Tokenized == last.op = "tokenize" /\ ~last.lexer.error.raised

\* the index in the source of the character at a line and column: the
\* column, after the first line - 1 newlines
RECURSIVE IndexOf(_, _, _)
IndexOf(text, line, column) ==
  IF line = 1 THEN column
  ELSE FirstIndex(text, "\n")
         + IndexOf(SubSeq(text, FirstIndex(text, "\n") + 1, Len(text)), line - 1, column)

\* the indices of the source a token stands on
TokenRange(t) ==
  IndexOf(last.source, t.line, t.column)
    .. (IndexOf(last.source, t.line, t.column) + Len(t.value) - 1)

\* the tokens other than the final one
Emitted == 1..(Len(last.lexer.tokens) - 1)

Covered(i) == \E k \in Emitted : i \in TokenRange(last.lexer.tokens[k])

\* index i is in a comment: after a # that is in no token, on the same line
InComment(i) ==
  \E j \in 1..i :
    /\ last.source[j] = "#" /\ ~Covered(j)
    /\ \A k \in j..i : last.source[k] # "\n"

\* C19: a token list ends with its only EOF token; every token is the text
\* at its position; the characters in no token are the spaces, tabs,
\* carriage returns and comments, and none of these is in a token other
\* than a string; every newline outside a string has its NEWLINE token;
\* the source text is the one given
C19_TokensCoverSource ==
  Tokenized =>
    /\ last.lexer.source = last.source
    /\ last.lexer.tokens # <<>>
    /\ \A k \in 1..Len(last.lexer.tokens) :
         (last.lexer.tokens[k].type = "EOF") = (k = Len(last.lexer.tokens))
    /\ \A k \in Emitted :
         /\ last.lexer.tokens[k].value # <<>>
         /\ last.lexer.tokens[k].value
              = [i \in 1..Len(last.lexer.tokens[k].value) |->
                   last.source[IndexOf(last.source, last.lexer.tokens[k].line,
                                       last.lexer.tokens[k].column) + i - 1]]
         /\ k + 1 \in Emitted =>
              \A i \in TokenRange(last.lexer.tokens[k]), j \in TokenRange(last.lexer.tokens[k + 1]) :
                i < j
         /\ last.lexer.tokens[k].type # "STRING" =>
              \A i \in TokenRange(last.lexer.tokens[k]) :
                /\ last.source[i] \notin {" ", "\t", "\r", "#"}
                /\ last.source[i] = "\n" => last.lexer.tokens[k].type = "NEWLINE"
                /\ ~InComment(i)
    /\ \A i \in 1..Len(last.source) :
         ~Covered(i) => last.source[i] \in {" ", "\t", "\r"} \/ InComment(i)

\* C19 witness: a source with a comment between two tokens, whose newline
\* is a token
C19_Witness ==
  /\ Tokenized
  /\ last.source = <<"#", "c", "\n", "5">>
  /\ Len(last.lexer.tokens) = 3
  /\ last.lexer.tokens[1].type = "NEWLINE"

KeywordTypes == {TokenPatterns[i].type : i \in {j \in 1..Len(TokenPatterns) : TokenPatterns[j].kind = "keyword"}}

\* the character after a token is none of chars
NotFollowedBy(t, chars) ==
  \A i \in TokenRange(t) : i + 1 \in TokenRange(t) \/ i = Len(last.source)
                            \/ last.source[i + 1] \notin chars

TokenTypes == [k \in 1..Len(last.lexer.tokens) |-> last.lexer.tokens[k].type]

\* C20: a keyword token is not followed by an identifier character, an
\* identifier token is a whole run of identifier characters, and =, <, >
\* are not followed by the = that would make a two-character operator;
\* sayer, if_x, format, order, notes are one IDENTIFIER each and kas x = 5
\* is KAS IDENTIFIER ASSIGN NUMBER EOF
C20_FirstMatchingRuleWins ==
  Tokenized =>
    /\ \A k \in Emitted :
         /\ last.lexer.tokens[k].type \in KeywordTypes \cup {"IDENTIFIER"}
              => NotFollowedBy(last.lexer.tokens[k], IdentifierChars)
         /\ last.lexer.tokens[k].type \in {"ASSIGN", "LT", "GT"}
              => NotFollowedBy(last.lexer.tokens[k], {"="})
         /\ last.lexer.tokens[k].type \in {"EQ", "NEQ", "LTE", "GTE"}
              => Len(last.lexer.tokens[k].value) = 2
    /\ last.source \in {<<"s", "a", "y", "e", "r">>, <<"i", "f", "_", "x">>, <<"f", "o", "r", "m", "a", "t">>, <<"o", "r", "d", "e", "r">>, <<"n", "o", "t", "e", "s">>}
         => /\ TokenTypes = <<"IDENTIFIER", "EOF">>
            /\ last.lexer.tokens[1].value = last.source
    /\ last.source = <<"k", "a", "s", " ", "x", " ", "=", " ", "5">>
         => /\ TokenTypes = <<"KAS", "IDENTIFIER", "ASSIGN", "NUMBER", "EOF">>
            /\ last.lexer.tokens[2].value = <<"x">>
            /\ last.lexer.tokens[4].value = <<"5">>

\* C20 witness: format, which starts with the keyword for, is one identifier
C20_Witness ==
  /\ Tokenized
  /\ last.source = <<"f", "o", "r", "m", "a", "t">>
  /\ TokenTypes = <<"IDENTIFIER", "EOF">>

\* ---------------------------------------------------------------- the IDE

\* The IDE's threads and the place each one is at. The main thread runs
\* the event loop: a user action is handled when it is at "mainloop". An
\* execution thread that does not exist is at "none". In _execute_code a
\* thread is at "tokenize", "parse", "interpret" (inside
\* Interpreter.interpret), "write" (the console output after it) or
\* "except" (the handler of its try); in reset_interpreter the main thread
\* is at "reset" (inside Interpreter.reset). The texts run are left out:
\* a text either passes a stage or raises in it.
MainThread == 0
Workers == 1..MaxThreads

Idle(thread) == IF thread = MainThread THEN "mainloop" ELSE "none"

\* the IDE with the places of its threads and the callbacks given to after()
Ide(at, after) == [op |-> "ide", at |-> at, after |-> after]

\* DoroLangIDE.__init__: one Interpreter, no execution thread
InitIde ==
  /\ variables = Empty
  /\ functions = Empty
  /\ output = <<>>
  /\ return_value = NoneV
  /\ should_return = FALSE
  /\ ncalls = 0
  /\ last = Ide([thread \in {MainThread} \cup Workers |-> Idle(thread)], 0)

InterpreterUnchanged ==
  UNCHANGED <<variables, functions, output, return_value, should_return, ncalls>>

\* threading.Thread(target=self._execute_code, ...).start()
StartThread ==
  \E thread \in Workers :
    /\ last.at[thread] = "none"
    /\ last' = Ide([last.at EXCEPT ![thread] = "tokenize"], last.after)

\* run_code: the execution is left to the event loop with after(0, ...)
run_code ==
  /\ last.at[MainThread] = "mainloop"
  /\ last.after < MaxThreads
  /\ last' = Ide(last.at, last.after + 1)
  /\ InterpreterUnchanged

\* the event loop calls a callback of run_code: _execute_code on the main thread
AfterCallback ==
  /\ last.at[MainThread] = "mainloop"
  /\ last.after > 0
  /\ last' = Ide([last.at EXCEPT ![MainThread] = "tokenize"], last.after - 1)
  /\ InterpreterUnchanged

\* run_selection, with a selection that is not blank
run_selection ==
  /\ last.at[MainThread] = "mainloop"
  /\ StartThread
  /\ InterpreterUnchanged

\* reset_interpreter, up to its call of Interpreter.reset
reset_interpreter ==
  /\ last.at[MainThread] = "mainloop"
  /\ last' = Ide([last.at EXCEPT ![MainThread] = "reset"], last.after)
  /\ InterpreterUnchanged

\* execute_interactive_line: the words clear and reset, or a line to run
execute_interactive_line(command) ==
  /\ last.at[MainThread] = "mainloop"
  /\ CASE command = "clear" -> UNCHANGED last /\ InterpreterUnchanged
       [] command = "reset" -> reset_interpreter
       [] OTHER -> StartThread /\ InterpreterUnchanged

\* Interpreter.reset returns in reset_interpreter
ResetReturn ==
  /\ last.at[MainThread] = "reset"
  /\ last' = Ide([last.at EXCEPT ![MainThread] = "mainloop"], last.after)
  /\ variables' = Empty
  /\ functions' = Empty
  /\ output' = <<>>
  /\ return_value' = NoneV
  /\ should_return' = FALSE
  /\ ncalls' = ncalls

\* the places a thread can come to from a place of _execute_code
AfterPlace(thread, place) ==
  CASE place = "tokenize" -> {"parse", "except"}
    [] place = "parse" -> {"interpret", "except"}
    [] place = "interpret" -> {"write", "except"}
    [] place = "write" -> {Idle(thread)}
    [] place = "except" -> {Idle(thread)}
    [] OTHER -> {}

\* one thread takes its next step of _execute_code
_execute_code(thread) ==
  /\ \E place \in AfterPlace(thread, last.at[thread]) :
       last' = Ide([last.at EXCEPT ![thread] = place], last.after)
  /\ InterpreterUnchanged

NextIde ==
  \/ run_code
  \/ AfterCallback
  \/ run_selection
  \/ reset_interpreter
  \/ \E command \in {"clear", "reset", "say 1"} : execute_interactive_line(command)
  \/ ResetReturn
  \/ \E thread \in {MainThread} \cup Workers : _execute_code(thread)

SpecIde == InitIde /\ [][NextIde]_vars

\* the threads inside Interpreter.interpret
InsideInterpret == {thread \in DOMAIN last.at : last.at[thread] = "interpret"}

\* C18: at most one thread is inside Interpreter.interpret, and none is
\* while the main thread is inside Interpreter.reset
C18_InterpreterSerialized ==
  last.op = "ide" =>
    /\ Cardinality(InsideInterpret) <= 1
    /\ last.at[MainThread] = "reset" => InsideInterpret = {}



\* ---------------------------------------------------------------- parser

\* the text of a token as one string: the names and operators of the tree
RECURSIVE Join(_)
Join(cs) == IF cs = <<>> THEN "" ELSE Head(cs) \o Join(Tail(cs))

\* Parser.__init__ (position counts from 1).  nodes holds what the parse
\* methods in progress have built: each method leaves its node on top of it.
\* raised: an exception, error, was raised, which ends every method.  unfollowed: a
\* number literal is a float the model has no value for.  frames: the Python
\* frames on the stack when parse() is called, its caller's included.
\* moves: every value advance() has assigned to position.  heads: the
\* position at the start of every iteration of a loop over statements,
\* parameters or arguments.
Parser(tokens) ==
  [tokens |-> tokens, position |-> 1, nodes |-> <<>>, unfollowed |-> FALSE, frames |-> 1,
   moves |-> <<>>, heads |-> <<>>, raised |-> FALSE,
   error |-> [kind |-> "", message |-> "", token |-> Token("", <<>>, 0, 0)]]

\* Parser.current_token
current_token(p) ==
  IF p.position > Len(p.tokens) THEN p.tokens[Len(p.tokens)] ELSE p.tokens[p.position]

\* Parser.peek_token
peek_token(p, offset) ==
  IF p.position + offset > Len(p.tokens) THEN p.tokens[Len(p.tokens)]
  ELSE p.tokens[p.position + offset]

\* Parser.advance: never past the last token
ParserAdvance(p) ==
  IF p.raised THEN p
  ELSE IF p.position >= Len(p.tokens) THEN p
  ELSE [p EXCEPT !.position = @ + 1, !.moves = Append(@, p.position + 1)]

\* Parser.match
match(p, expected_types) == current_token(p).type \in expected_types

\* the interpreter of Python raises RecursionError where a call would make
\* the stack deeper than the recursion limit.  d counts the frames of the
\* parser, from parse() to the method that makes the call.
Overflows(p, d) == p.frames + d > MaxFrames

RecursionError(p) ==
  [p EXCEPT !.raised = TRUE,
            !.error = [kind |-> "RecursionError", message |-> "maximum recursion depth exceeded",
                       token |-> Token("", <<>>, 0, 0)]]

\* the start of an iteration of a loop
Iterate(p) == IF p.raised THEN p ELSE [p EXCEPT !.heads = Append(@, p.position)]

\* raise ParseError(message, self.current_token()) in the method at depth d:
\* the class, ParseError.__init__ and Exception.__init__ are three calls
ParseError(p, d, message) ==
  IF Overflows(p, d + 3) THEN RecursionError(p)
  ELSE [p EXCEPT !.raised = TRUE,
                 !.error = [kind |-> "ParseError", message |-> message,
                            token |-> current_token(p)]]

\* Parser.consume, itself at depth d: match and current_token are two calls
consume(p, d, expected_type, error_message) ==
  IF p.raised THEN p
  ELSE IF Overflows(p, d + 2) THEN RecursionError(p)
  ELSE IF match(p, {expected_type}) THEN ParserAdvance(p)
  ELSE IF error_message # "" THEN ParseError(p, d, error_message)
  ELSE ParseError(p, d, "Expected " \o expected_type \o ", got " \o current_token(p).type
                          \o " '" \o Join(current_token(p).value) \o "'")

RECURSIVE SkipLoop(_)
SkipLoop(p) == IF ~match(p, {"NEWLINE"}) THEN p ELSE SkipLoop(ParserAdvance(p))

\* Parser.skip_newlines, itself at depth d
skip_newlines(p, d) ==
  IF p.raised THEN p
  ELSE IF Overflows(p, d + 2) THEN RecursionError(p)
  ELSE SkipLoop(p)

\* a method returns node
Push(p, node) == IF p.raised THEN p ELSE [p EXCEPT !.nodes = Append(@, node)]

\* the nodes a method holds, from the latest
Held(p, i) == p.nodes[Len(p.nodes) + 1 - i]

\* a method returns node, built from the n nodes it holds
Build(p, n, node) ==
  IF p.raised THEN p
  ELSE [p EXCEPT !.nodes = Append(SubSeq(@, 1, Len(@) - n), node)]

\* a method returns node, built from the nodes it has held since there were base
HeldSince(p, base) == SubSeq(p.nodes, base + 1, Len(p.nodes))

BuildSince(p, base, node) ==
  IF p.raised THEN p ELSE [p EXCEPT !.nodes = Append(SubSeq(@, 1, base), node)]

\* str.replace of the two characters a b by c
RECURSIVE Replace(_, _, _, _)
Replace(cs, a, b, c) ==
  IF Len(cs) < 2 THEN cs
  ELSE IF cs[1] = a /\ cs[2] = b THEN <<c>> \o Replace(SubSeq(cs, 3, Len(cs)), a, b, c)
  ELSE <<cs[1]>> \o Replace(Tail(cs), a, b, c)

\* Parser._process_string_literal
_process_string_literal(raw_string) ==
  Replace(Replace(Replace(Replace(Replace(Replace(
    SubSeq(raw_string, 2, Len(raw_string) - 1),
    "\\", "n", "\n"), "\\", "t", "\t"), "\\", "r", "\r"), "\\", "\\", "\\"),
    "\\", "\"", "\""), "\\", "'", "'")

\* float(token.value) of a NUMBER token
NumberValue(text) ==
  IF Contains(text, ".")
  THEN FloatOfParts(NoneV, SubSeq(text, 1, FirstIndex(text, ".") - 1),
                    SubSeq(text, FirstIndex(text, ".") + 1, Len(text)), FALSE, FALSE, <<>>)
  ELSE Num(TRUE, 2 * DigitsVal(text))

\* NumberLiteral(float(token.value))
NumberOf(p, number) ==
  IF number.sig = "ok" THEN Push(p, NumberLiteral(number.val.n))
  ELSE Push([p EXCEPT !.unfollowed = TRUE], NoNode)

InputCall(prompt) == [k |-> "InputCall", prompt |-> prompt]

\* every parse method takes d, the depth of its own frame
RECURSIVE parse_expression(_, _), parse_unary(_, _), parse_primary(_, _), ArgumentsLoop(_, _),
          parse_statement(_, _), parse_block_statement(_, _), BlockStatements(_, _)
RECURSIVE LogicalOrLoop(_, _), LogicalAndLoop(_, _), EqualityLoop(_, _), ComparisonLoop(_, _),
          AdditionLoop(_, _), MultiplicationLoop(_, _), MultiplicationOrAddition(_, _)

\* left = BinaryOperation(left, operator, right), of the two operands parsed
BinaryOf(operator, p) == Build(p, 2, BinaryOperation(Held(p, 2), operator, Held(p, 1)))

\* a wrong level: + and - bind like * / %
MultiplicationOrAddition(p, d) ==
  IF p.raised THEN p
  ELSE IF ~match(p, {"MULTIPLY", "DIVIDE", "MODULO", "PLUS", "MINUS"}) THEN p
  ELSE MultiplicationOrAddition(
         BinaryOf(Join(current_token(p).value), parse_unary(ParserAdvance(p), d + 1)), d)

\* parse_multiplication, the loop while self.match(...): operator = self.advance().value
MultiplicationLoop(p, d) ==
  IF p.raised THEN p
  ELSE IF ~match(p, {"MULTIPLY", "DIVIDE", "MODULO"}) THEN p
  ELSE MultiplicationLoop(BinaryOf(Join(current_token(p).value), parse_unary(ParserAdvance(p), d + 1)), d)

\* Parser.parse_multiplication: left, then the loop
parse_multiplication(p, d) == MultiplicationLoop(parse_unary(p, d + 1), d)

\* parse_addition, the loop while self.match(...): operator = self.advance().value
AdditionLoop(p, d) ==
  IF p.raised THEN p
  ELSE IF ~match(p, {"PLUS", "MINUS"}) THEN p
  ELSE AdditionLoop(BinaryOf(Join(current_token(p).value), parse_multiplication(ParserAdvance(p), d + 1)), d)

\* Parser.parse_addition: left, then the loop
parse_addition(p, d) == AdditionLoop(parse_multiplication(p, d + 1), d)

\* parse_comparison, the loop while self.match(...): operator = self.advance().value
ComparisonLoop(p, d) ==
  IF p.raised THEN p
  ELSE IF ~match(p, {"LT", "GT", "LTE", "GTE"}) THEN p
  ELSE ComparisonLoop(BinaryOf(Join(current_token(p).value), parse_addition(ParserAdvance(p), d + 1)), d)

\* Parser.parse_comparison: left, then the loop
parse_comparison(p, d) == ComparisonLoop(parse_addition(p, d + 1), d)

\* parse_equality, the loop while self.match(...): operator = self.advance().value
EqualityLoop(p, d) ==
  IF p.raised THEN p
  ELSE IF ~match(p, {"EQ", "NEQ"}) THEN p
  ELSE EqualityLoop(BinaryOf(Join(current_token(p).value), parse_comparison(ParserAdvance(p), d + 1)), d)

\* Parser.parse_equality: left, then the loop
parse_equality(p, d) == EqualityLoop(parse_comparison(p, d + 1), d)

\* parse_logical_and, the loop while self.match(...): operator = self.advance().value
LogicalAndLoop(p, d) ==
  IF p.raised THEN p
  ELSE IF ~match(p, {"AND"}) THEN p
  ELSE LogicalAndLoop(BinaryOf(Join(current_token(p).value), parse_equality(ParserAdvance(p), d + 1)), d)

\* Parser.parse_logical_and: left, then the loop
parse_logical_and(p, d) == LogicalAndLoop(parse_equality(p, d + 1), d)

\* parse_logical_or, the loop while self.match(...): operator = self.advance().value
LogicalOrLoop(p, d) ==
  IF p.raised THEN p
  ELSE IF ~match(p, {"OR"}) THEN p
  ELSE LogicalOrLoop(BinaryOf(Join(current_token(p).value), parse_logical_and(ParserAdvance(p), d + 1)), d)

\* Parser.parse_logical_or: left, then the loop
parse_logical_or(p, d) == LogicalOrLoop(parse_logical_and(p, d + 1), d)

\* Parser.parse_expression
parse_expression(p, d) == parse_logical_or(p, d + 1)

UnaryOf(operator, p) == Build(p, 1, UnaryOperation(operator, Held(p, 1)))

\* Parser.parse_unary
parse_unary(p, d) ==
  IF p.raised THEN p
  ELSE IF Overflows(p, d + 2) THEN RecursionError(p)
  ELSE IF match(p, {"MINUS", "PLUS", "NOT"})
  THEN UnaryOf(Join(current_token(p).value), parse_unary(ParserAdvance(p), d + 1))
  ELSE parse_primary(p, d + 1)

InputPrompt(p) == Build(p, 1, InputCall(Held(p, 1)))

\* parse_primary, input( ... )
InputOf(p, d) ==
  IF p.raised THEN p
  ELSE IF match(p, {"RPAREN"}) THEN Push(ParserAdvance(p), InputCall(StringLiteral(<<>>)))
  ELSE InputPrompt(consume(parse_expression(p, d + 1), d + 1, "RPAREN",
                           "Expected ')' after input prompt"))

ParenthesizedOf(p) == Build(p, 1, ParenthesizedExpression(Held(p, 1)))

\* parse_primary, the loop over the arguments of a call, after one argument
ArgumentsLoop(p, d) ==
  IF p.raised THEN p
  ELSE IF match(p, {"RPAREN"}) THEN p
  ELSE IF match(p, {"COMMA"})
  THEN ArgumentsLoop(parse_expression(Iterate(ParserAdvance(p)), d + 1), d)
  ELSE p

Arguments(p, d) ==
  IF p.raised THEN p
  ELSE IF match(p, {"RPAREN"}) THEN p
  ELSE ArgumentsLoop(parse_expression(Iterate(p), d + 1), d)

CallOf(name, base, p) == BuildSince(p, base, FunctionCall(name, HeldSince(p, base)))

\* parse_primary, after an identifier: a call or a variable
IdentifierOf(name, p, d) ==
  IF match(p, {"LPAREN"})
  THEN CallOf(name, Len(p.nodes),
              consume(Arguments(ParserAdvance(p), d), d + 1, "RPAREN",
                      "Expected ')' after function arguments"))
  ELSE Push(p, Identifier(name))

\* Parser.parse_primary
parse_primary(p, d) ==
  IF p.raised THEN p
  ELSE IF Overflows(p, d + 2) THEN RecursionError(p)
  ELSE CASE match(p, {"INPUT"}) ->
              InputOf(consume(ParserAdvance(p), d + 1, "LPAREN", "Expected '(' after input"), d)
         [] match(p, {"LPAREN"}) ->
              ParenthesizedOf(consume(parse_expression(ParserAdvance(p), d + 1), d + 1, "RPAREN",
                                      "Expected ')' after expression"))
         [] match(p, {"NUMBER"}) -> NumberOf(ParserAdvance(p), NumberValue(current_token(p).value))
         [] match(p, {"STRING"}) ->
              Push(ParserAdvance(p),
                   StringLiteral(_process_string_literal(current_token(p).value)))
         [] match(p, {"TRUE"}) -> Push(ParserAdvance(p), BooleanLiteral(TRUE))
         [] match(p, {"FALSE"}) -> Push(ParserAdvance(p), BooleanLiteral(FALSE))
         [] match(p, {"IDENTIFIER"}) ->
              IdentifierOf(Join(current_token(p).value), ParserAdvance(p), d)
         [] OTHER ->
              ParseError(p, d, "Unexpected token in expression: '"
                                 \o Join(current_token(p).value) \o "'")

IfOf(p, n) ==
  Build(p, n, IfStatement(Held(p, n), Held(p, n - 1), IF n = 3 THEN Held(p, 1) ELSE NoNode))

\* parse_if_statement, after the then branch
IfElse(p, d) ==
  IF p.raised THEN p
  ELSE IF match(p, {"ELSE"}) THEN IfOf(parse_statement(consume(p, d + 1, "ELSE", ""), d + 1), 3)
  ELSE IfOf(p, 2)

\* Parser.parse_if_statement
parse_if_statement(p, d) ==
  IfElse(parse_block_statement(parse_expression(consume(p, d + 1, "IF", "Expected 'if'"),
                                                d + 1), d + 1), d)

WhileOf(p) == Build(p, 2, WhileStatement(Held(p, 2), Held(p, 1)))

\* Parser.parse_while_statement
parse_while_statement(p, d) ==
  WhileOf(parse_block_statement(
            parse_expression(consume(p, d + 1, "WHILE", "Expected 'while'"), d + 1), d + 1))

\* parse_for_statement, after the start value: to and the end value
ForTo(p, d) ==
  IF p.raised THEN p
  ELSE IF ~(match(p, {"IDENTIFIER"}) /\ current_token(p).value = <<"t", "o">>)
  THEN ParseError(p, d, "Expected 'to' after start value")
  ELSE parse_expression(ParserAdvance(p), d + 1)

\* parse_for_statement, after the end value: the optional step
ForStepOf(p, d) ==
  IF p.raised THEN p
  ELSE IF match(p, {"IDENTIFIER"}) /\ current_token(p).value = <<"s", "t", "e", "p">>
  THEN parse_expression(ParserAdvance(p), d + 1)
  ELSE Push(p, NoNode)

ForOf(variable_name, p) ==
  Build(p, 4, ForStatement(variable_name, Held(p, 4), Held(p, 3), Held(p, 2), Held(p, 1)))

\* Parser.parse_for_statement
parse_for_statement(p, d) ==
  ForOf(Join(peek_token(p, 2).value),
        parse_block_statement(ForStepOf(ForTo(parse_expression(
          consume(consume(consume(consume(p, d + 1, "FOR", "Expected 'for'"),
                                  d + 1, "KAS", "Expected 'kas' after 'for'"),
                          d + 1, "IDENTIFIER", "Expected variable name after 'kas'"),
                  d + 1, "ASSIGN", "Expected '=' after variable name"), d + 1), d), d), d + 1))

RECURSIVE ParametersLoop(_, _)

\* parse_function_definition, the loop over the parameters, after one name
ParametersNext(p, d) ==
  IF p.raised THEN p
  ELSE IF match(p, {"RPAREN"}) THEN p
  ELSE IF match(p, {"COMMA"}) THEN ParametersLoop(ParserAdvance(p), d)
  ELSE p

ParametersLoop(p, d) ==
  IF p.raised THEN p
  ELSE ParametersNext(Push(consume(Iterate(p), d + 1, "IDENTIFIER", "Expected parameter name"),
                           Join(current_token(p).value)), d)

Parameters(p, d) ==
  IF p.raised \/ match(p, {"RPAREN"}) THEN p ELSE ParametersLoop(p, d)

FunctionOf(function_name, base, p) ==
  BuildSince(p, base,
             FunctionDefinition(function_name,
                                SubSeq(p.nodes, base + 1, Len(p.nodes) - 1), Held(p, 1)))

\* Parser.parse_function_definition
parse_function_definition(p, d) ==
  FunctionOf(Join(peek_token(p, 1).value), Len(p.nodes),
             parse_block_statement(consume(Parameters(
               consume(consume(consume(p, d + 1, "FUNCTION", "Expected 'function'"),
                               d + 1, "IDENTIFIER", "Expected function name"),
                       d + 1, "LPAREN", "Expected '(' after function name"), d),
               d + 1, "RPAREN", "Expected ')' after parameters"), d + 1))

ReturnOf(p) == Build(p, 1, ReturnStatement(Held(p, 1)))

\* parse_return_statement, after return
ReturnExpression(p, d) ==
  IF p.raised THEN p
  ELSE IF match(p, {"NEWLINE", "RBRACE", "EOF"}) THEN Push(p, ReturnStatement(NoNode))
  ELSE ReturnOf(parse_expression(p, d + 1))

\* Parser.parse_return_statement
parse_return_statement(p, d) ==
  ReturnExpression(consume(p, d + 1, "RETURN", "Expected 'return'"), d)

\* parse_block_statement, the loop over the statements
BlockStatements(p, d) ==
  IF p.raised THEN p
  ELSE IF match(p, {"RBRACE", "EOF"}) THEN p
  ELSE BlockStatements(skip_newlines(parse_statement(Iterate(p), d + 1), d + 1), d)

BlockOf(base, p) == BuildSince(p, base, BlockStatement(HeldSince(p, base)))

\* Parser.parse_block_statement
parse_block_statement(p, d) ==
  BlockOf(Len(p.nodes),
          consume(BlockStatements(skip_newlines(consume(p, d + 1, "LBRACE", ""), d + 1), d),
                  d + 1, "RBRACE", "Expected '}' to close block"))

SayOf(p) == Build(p, 1, SayStatement(Held(p, 1)))

\* Parser.parse_say_statement
parse_say_statement(p, d) == SayOf(parse_expression(consume(p, d + 1, "SAY", ""), d + 1))

AssignmentOf(identifier_name, p) ==
  Build(p, 1, AssignmentStatement(identifier_name, Held(p, 1)))

\* Parser.parse_assignment_statement
parse_assignment_statement(p, d) ==
  AssignmentOf(Join(peek_token(p, 1).value),
               parse_expression(
                 consume(consume(consume(p, d + 1, "KAS", ""),
                                 d + 1, "IDENTIFIER", "Expected variable name after 'kas'"),
                         d + 1, "ASSIGN", "Expected '=' after variable name"), d + 1))

\* a wrong dispatch: a statement may be an expression
ExpressionStatement(p, d) ==
  IF match(p, {"SAY"}) THEN parse_say_statement(p, d + 1) ELSE parse_expression(p, d + 1)

\* Parser.parse_statement
parse_statement(p, d) ==
  IF p.raised THEN p
  ELSE IF Overflows(p, d + 2) THEN RecursionError(p)
  ELSE CASE match(p, {"FUNCTION"}) -> parse_function_definition(p, d + 1)
         [] match(p, {"IF"}) -> parse_if_statement(p, d + 1)
         [] match(p, {"WHILE"}) -> parse_while_statement(p, d + 1)
         [] match(p, {"FOR"}) -> parse_for_statement(p, d + 1)
         [] match(p, {"RETURN"}) -> parse_return_statement(p, d + 1)
         [] match(p, {"SAY"}) -> parse_say_statement(p, d + 1)
         [] match(p, {"KAS"}) -> parse_assignment_statement(p, d + 1)
         [] match(p, {"LBRACE"}) -> parse_block_statement(p, d + 1)
         [] OTHER -> ParseError(p, d, "Unexpected token: '" \o Join(current_token(p).value) \o "'")

\* Parser.parse, the loop over the statements of the program
RECURSIVE ParseLoop(_)
ParseLoop(p) ==
  IF p.raised THEN p
  ELSE IF match(p, {"EOF"}) THEN p
  ELSE IF match(p, {"NEWLINE"}) THEN ParseLoop(ParserAdvance(Iterate(p)))
  ELSE ParseLoop(parse_statement(Iterate(p), 2))

\* Parser.parse, at depth 1: the statements of the Program are the nodes left
parse(p) == ParseLoop(skip_newlines(p, 2))

\* ---------------------------------------------------------------- DoroLang

\* the mark the error messages of DoroLang.run start with: U+274C and a blank
CrossMark == "X "

\* str() of a LexerError and of a ParseError
LexerErrorText(error) ==
  "Lexer Error: Unknown character '" \o error.char \o "' at line "
    \o Join(NatToStr(error.line)) \o ":" \o Join(NatToStr(error.column))

ParseErrorText(error) ==
  "Parse Error: " \o error.message \o " at line "
    \o Join(NatToStr(error.token.line)) \o ":" \o Join(NatToStr(error.token.column))

\* what one call of DoroLang.run did: the Interpreter it leaves, the list it
\* returns, the last stage it called and the program it parsed
Ran(interpreter, returned, stage, program) ==
  [interpreter |-> interpreter, returned |-> returned, stage |-> stage, program |-> program]

\* DoroLang.run, the third stage: interpret() returns the output list
RunInterpret(program, post) == Ran(post, post.output, "interpret", program)

\* a wrong run: after a ParseError the statements parsed before it are run
RunParsePrefix(parser, s) ==
  IF parser.unfollowed THEN Ran(LeaveModel(s), <<>>, "parse", <<>>)
  ELSE RunInterpret(parser.nodes, interpret(parser.nodes, s))

\* DoroLang.run, the second stage and its except clause
RunParse(parser, s) ==
  IF parser.unfollowed THEN Ran(LeaveModel(s), <<>>, "parse", <<>>)
  ELSE IF parser.raised /\ parser.error.kind = "RecursionError"
  THEN Ran(s, <<<<CrossMark \o "Unexpected error: ", parser.error.message>>>>, "parse", <<>>)
  ELSE IF parser.raised
  THEN Ran(s, <<<<CrossMark \o "Parse error: ", ParseErrorText(parser.error)>>>>, "parse", <<>>)
  ELSE RunInterpret(parser.nodes, interpret(parser.nodes, s))

\* DoroLang.run, the first stage and its except clause
RunTokenize(lexer, s) ==
  IF lexer.error.raised
  THEN Ran(s, <<<<CrossMark \o "Lexer error: ", LexerErrorText(lexer.error)>>>>, "tokenize", <<>>)
  ELSE RunParse(parse(Parser(lexer.tokens)), s)

\* a wrong run: every call on a new Interpreter
RunOnNewInterpreter(source_code, s) ==
  RunTokenize(tokenize(Lexer(source_code)), RunState(Empty, Empty, <<>>, NoneV, FALSE))

\* DoroLang.run(source_code) on the Interpreter s: a new Lexer and a new Parser
run(source_code, s) == RunTokenize(tokenize(Lexer(source_code)), s)

\* the state after an operation of DoroLang
DoroLangBecomes(op, source, ran) ==
  /\ ran.interpreter.sig # "oob"
  /\ variables' = ran.interpreter.variables
  /\ functions' = ran.interpreter.functions
  /\ output' = ran.interpreter.output
  /\ return_value' = ran.interpreter.return_value
  /\ should_return' = ran.interpreter.should_return
  /\ ncalls' = ncalls
  /\ last' = [op |-> op, source |-> source, program |-> ran.program, pre |-> Here,
              post |-> ran.interpreter, stage |-> ran.stage, returned |-> ran.returned]

UpperCase == <<"A", "B", "C", "D", "E", "F", "G", "H", "I", "J", "K", "L", "M",
               "N", "O", "P", "Q", "R", "S", "T", "U", "V", "W", "X", "Y", "Z">>
LowerCase == <<"a", "b", "c", "d", "e", "f", "g", "h", "i", "j", "k", "l", "m",
               "n", "o", "p", "q", "r", "s", "t", "u", "v", "w", "x", "y", "z">>

\* str.lower() on ASCII text
Lower(cs) ==
  [i \in 1..Len(cs) |->
     IF \E k \in 1..26 : UpperCase[k] = cs[i]
     THEN LowerCase[CHOOSE k \in 1..26 : UpperCase[k] = cs[i]]
     ELSE cs[i]]

\* run_interactive, one round of its loop on the stripped line: the words
\* of the host, the empty line, or a line given to run()
InteractiveLine(line, word) ==
  CASE word \in {<<"e", "x", "i", "t">>, <<"q", "u", "i", "t">>} ->
         DoroLangBecomes("exit", line, Ran(Here, <<>>, "none", <<>>))
    [] word = <<"v", "a", "r", "s">> -> DoroLangBecomes("vars", line, Ran(Here, <<>>, "none", <<>>))
    [] word = <<"c", "l", "e", "a", "r">> ->
         DoroLangBecomes("clear", line, Ran(reset(Here), <<>>, "none", <<>>))
    [] word = <<"h", "e", "l", "p">> -> DoroLangBecomes("help", line, Ran(Here, <<>>, "none", <<>>))
    [] line = <<>> -> DoroLangBecomes("empty", line, Ran(Here, <<>>, "none", <<>>))
    [] OTHER -> DoroLangBecomes("run", line, run(line, Here))

\* the lines typed at the prompt
Lines ==
  {<<"k", "a", "s", " ", "x", " ", "=", " ", "1">>,
   <<"s", "a", "y", " ", "x">>,
   <<"f", "u", "n", "c", "t", "i", "o", "n", " ", "f", "(", ")", " ", "{", " ", "r", "e", "t", "u", "r", "n", " ", "x", " ", "}">>,
   <<"s", "a", "y", " ", "f", "(", ")">>,
   <<"r", "e", "t", "u", "r", "n">>,
   <<"@">>,
   <<"k", "a", "s", " ", "y", " ", "=", " ", "1", " ", "@">>,
   <<"k", "a", "s", " ", "=", " ", "1">>,
   <<"k", "a", "s", " ", "y", " ", "=", " ", "2", " ", "k", "a", "s">>,
   <<"s", "a", "y", " ", "y">>,
   <<"c", "l", "e", "a", "r">>,
   <<"C", "L", "E", "A", "R">>,
   <<" ", "v", "a", "r", "s", " ">>,
   <<"h", "e", "l", "p">>,
   <<"e", "x", "i", "t">>,
   <<"Q", "u", "i", "t">>,
   <<>>,
   <<"c", "l", "e", "a", "r", " ", "x">>}

\* the source texts given to run() by a caller other than the prompt
RunSources ==
  {<<"k", "a", "s", " ", "x", " ", "=", " ", "1", "\n", "@">>,
   <<"k", "a", "s", " ", "x", " ", "=", " ", "1", "\n", "k", "a", "s", " ", "=", " ", "2">>,
   <<"s", "a", "y", " ", "1", "\n", "s", "a", "y", " ", "2", " ", "+">>,
   <<"k", "a", "s", " ", "x", " ", "=", " ", "1", "\n", "s", "a", "y", " ", "x", " ", "+", " ", "0", ".", "5">>,
   <<"f", "u", "n", "c", "t", "i", "o", "n", " ", "f", "(", ")", " ", "{", " ", "r", "e", "t", "u", "r", "n", " ", "1", " ", "}", "\n", "s", "a", "y", " ", "f", "(", ")", "\n", "$">>,
   <<"s", "a", "y", " ", "\"", "a", "\\", "t", "b", "\"">>,
   <<"i", "f", " ", "x", " ", "{", " ", "s", "a", "y", " ", "1", " ", "}", " ", "e", "l", "s", "e", " ", "{", " ", "s", "a", "y", " ", "2", " ", "}">>,
   <<"f", "o", "r", " ", "k", "a", "s", " ", "i", " ", "=", " ", "1", " ", "t", "o", " ", "2", " ", "{", " ", "s", "a", "y", " ", "i", " ", "}">>,
   <<"w", "h", "i", "l", "e", " ", "f", "a", "l", "s", "e", " ", "{", " ", "}", "\n", "s", "a", "y", " ", "n", "o", "t", " ", "t", "r", "u", "e">>,
   <<"k", "a", "s", " ", "x", " ", "=", " ", "1", ".", "2", "5">>,
   <<"s", "a", "y", " ", "f", "(", "1", ",", " ", "2">>,
   <<"{", " ", "k", "a", "s", " ", "x", " ", "=", " ", "3", "\n", " ", "s", "a", "y", " ", "x", " ", "}", "\n", "}">>,
   <<"s", "a", "y", " ", "i", "n", "p", "u", "t", "(", ")">>}

\* DoroLang.__init__
InitDoroLang ==
  /\ variables = Empty
  /\ functions = Empty
  /\ output = <<>>
  /\ return_value = NoneV
  /\ should_return = FALSE
  /\ ncalls = 0
  /\ last = [op |-> "init", source |-> <<>>, program |-> <<>>,
             pre |-> RunState(Empty, Empty, <<>>, NoneV, FALSE),
             post |-> RunState(Empty, Empty, <<>>, NoneV, FALSE),
             stage |-> "none", returned |-> <<>>]

\* DoroLang.run_interactive: input() returns line, until exit or quit
run_interactive(line) ==
  /\ last.op # "exit"
  /\ InteractiveLine(Strip(line), Lower(Strip(line)))

\* DoroLang.run(source)
RunSource(source) ==
  /\ last.op # "exit"
  /\ DoroLangBecomes("run", source, run(source, Here))

NextDoroLang ==
  \/ \E line \in Lines : run_interactive(line)
  \/ \E source \in RunSources : RunSource(source)

SpecDoroLang == InitDoroLang /\ [][NextDoroLang]_vars

\* DoroLang.run was called on last.source
RunCalled == last.op = "run"

\* the Lexer of a source text after tokenize(), and the Parser of its tokens
\* after parse()
LexerOf(source) == tokenize(Lexer(source))
ParserOf(source) == parse(Parser(LexerOf(source).tokens))

\* the call left the variables, functions and output as they were and
\* started no statement
InterpreterUntouched ==
  /\ variables = last.pre.variables
  /\ functions = last.pre.functions
  /\ output = last.pre.output
  /\ last.post.nstarted = 0
  /\ last.post.saylog = <<>>

\* the call returned a list of one line, the error message
ReturnedError(kind, text) == last.returned = <<<<CrossMark \o kind, text>>>>

\* C16: when the source raises a LexerError, run() stops in tokenize(): no
\* parsing, no statement runs, the Interpreter's variables, functions and
\* output are unchanged, and the list returned holds the one error message;
\* when it raises a ParseError, run() stops in parse() in the same way
C16_ErrorStopsPipeline ==
  RunCalled =>
    /\ LexerOf(last.source).error.raised =>
         /\ last.stage = "tokenize"
         /\ InterpreterUntouched
         /\ ReturnedError("Lexer error: ", LexerErrorText(LexerOf(last.source).error))
    /\ (~LexerOf(last.source).error.raised /\ ParserOf(last.source).raised) =>
         /\ last.stage = "parse"
         /\ InterpreterUntouched
         /\ ReturnedError("Parse error: ", ParseErrorText(ParserOf(last.source).error))

\* C16 witness: a run with a ParseError on the second line, whose first line
\* kas x = 1 did not run
C16_Witness ==
  /\ RunCalled
  /\ last.source = <<"k", "a", "s", " ", "x", " ", "=", " ", "1", "\n", "k", "a", "s", " ", "=", " ", "2">>
  /\ last.stage = "parse"
  /\ "x" \notin DOMAIN variables

HostWords == {<<"e", "x", "i", "t">>, <<"q", "u", "i", "t">>, <<"v", "a", "r", "s">>, <<"c", "l", "e", "a", "r">>, <<"h", "e", "l", "p">>}

\* C17: every run() works on the Interpreter the call before left, and
\* leaves every variable and function of it bound; a line with a lexer or
\* parse error leaves them as they are; so do the host words, but clear,
\* which empties them; no host word is given to the lexer
C17_ReplKeepsInterpreter ==
  [][/\ last'.op = "run" =>
          /\ last'.pre.variables = variables
          /\ last'.pre.functions = functions
          /\ DOMAIN variables \subseteq DOMAIN variables'
          /\ DOMAIN functions \subseteq DOMAIN functions'
          /\ last'.stage \in {"tokenize", "parse"} =>
               (variables' = variables /\ functions' = functions)
     /\ Lower(Strip(last'.source)) \in HostWords =>
          /\ last'.op \in {"exit", "vars", "clear", "help"}
          /\ last'.stage = "none"
          /\ last'.op # "clear" => (variables' = variables /\ functions' = functions)
          /\ last'.op = "clear" => (variables' = Empty /\ functions' = Empty)]_vars

\* C17 witness: say x prints the x of an earlier line, after a line that
\* ended in a runtime error
C17_Witness ==
  /\ RunCalled
  /\ last.source = <<"s", "a", "y", " ", "x">>
  /\ last.returned = <<<<"1", ".", "0">>>>
  /\ last.pre.output # <<>>
  /\ IsErrorLine(last.pre.output[Len(last.pre.output)])
  /\ "f" \in DOMAIN functions

\* ---------------------------------------------------------------- tokens and trees

\* digits, or digits, one point and digits
IsNumberText(text) ==
  \/ text # <<>> /\ AllDigits(text)
  \/ /\ Contains(text, ".")
     /\ FirstIndex(text, ".") \in 2..(Len(text) - 1)
     /\ AllDigits(SubSeq(text, 1, FirstIndex(text, ".") - 1))
     /\ AllDigits(SubSeq(text, FirstIndex(text, ".") + 1, Len(text)))

\* C21: the text of every NUMBER token is one or more digits, or digits, a
\* point and one or more digits; digits and a point without a digit after
\* it are not one NUMBER token
C21_NumberTokenShape ==
  Tokenized =>
    \A k \in Emitted :
      last.lexer.tokens[k].type = "NUMBER" => IsNumberText(last.lexer.tokens[k].value)

\* the line and the column of the character after the first n characters of
\* a text: one more than the newlines among them, and one more than the
\* characters among them after the last newline
LineAfter(text, n) == 1 + Cardinality({i \in 1..n : text[i] = "\n"})
ColumnAfter(text, n) ==
  1 + Cardinality({i \in 1..n : \A j \in i..n : text[j] # "\n"})

\* C22: every token appended, the EOF token too, carries the line and column
\* of the character it starts at and is the text found there; a LexerError
\* names a character no rule matches, with its line and column, and no
\* token list is completed
C22_PositionsExact ==
  last.op = "tokenize" =>
    /\ Len(last.lexer.starts) = Len(last.lexer.tokens)
    /\ \A k \in 1..Len(last.lexer.tokens) :
         /\ last.lexer.tokens[k].line = LineAfter(last.source, last.lexer.starts[k])
         /\ last.lexer.tokens[k].column = ColumnAfter(last.source, last.lexer.starts[k])
         /\ last.lexer.tokens[k].value
              = SubSeq(last.source, last.lexer.starts[k] + 1,
                       last.lexer.starts[k] + Len(last.lexer.tokens[k].value))
    /\ last.lexer.error.raised =>
         /\ last.lexer.position < Len(last.source)
         /\ last.lexer.error.char = last.source[last.lexer.position + 1]
         /\ last.lexer.error.line = LineAfter(last.source, last.lexer.position)
         /\ last.lexer.error.column = ColumnAfter(last.source, last.lexer.position)
         /\ \A i \in 1..Len(TokenPatterns) :
              MatchLength(TokenPatterns[i],
                          SubSeq(last.source, last.lexer.position + 1, Len(last.source))) = 0
         /\ \A k \in 1..Len(last.lexer.tokens) : last.lexer.tokens[k].type # "EOF"

\* C22 witness: a LexerError on the third line, after a string over two lines
\* and a comment
C22_Witness ==
  /\ last.op = "tokenize"
  /\ last.lexer.error = [raised |-> TRUE, char |-> "@", line |-> 3, column |-> 3]
  /\ Len(last.lexer.tokens) = 3
  /\ last.lexer.tokens[2].type = "STRING"
  /\ last.lexer.tokens[3] = Token("NEWLINE", <<"\n">>, 2, 7)

\* ---------------------------------------------------------------- one token list

\* the tokens the short lists are made of: type and text
TokenKinds ==
  << <<"IF", <<"i", "f">>>>,
     <<"ELSE", <<"e", "l", "s", "e">>>>,
     <<"SAY", <<"s", "a", "y">>>>,
     <<"KAS", <<"k", "a", "s">>>>,
     <<"RETURN", <<"r", "e", "t", "u", "r", "n">>>>,
     <<"WHILE", <<"w", "h", "i", "l", "e">>>>,
     <<"FOR", <<"f", "o", "r">>>>,
     <<"FUNCTION", <<"f", "u", "n", "c", "t", "i", "o", "n">>>>,
     <<"LBRACE", <<"{">>>>,
     <<"RBRACE", <<"}">>>>,
     <<"LPAREN", <<"(">>>>,
     <<"RPAREN", <<")">>>>,
     <<"IDENTIFIER", <<"f">>>>,
     <<"NUMBER", <<"1">>>>,
     <<"ASSIGN", <<"=">>>>,
     <<"PLUS", <<"+">>>>,
     <<"COMMA", <<",">>>>,
     <<"NEWLINE", <<"\n">>>> >>

\* the binary operators, one or two of every level, and the unary operators
BinaryKinds ==
  << <<"OR", <<"o", "r">>>>,
     <<"AND", <<"a", "n", "d">>>>,
     <<"EQ", <<"=", "=">>>>,
     <<"LT", <<"<">>>>,
     <<"PLUS", <<"+">>>>,
     <<"MINUS", <<"-">>>>,
     <<"MULTIPLY", <<"*">>>> >>

PrefixKinds ==
  << <<"NOT", <<"n", "o", "t">>>>,
     <<"MINUS", <<"-">>>> >>

\* the token list of the kinds chosen, on one line, with the EOF token
TokensOf(kinds) ==
  [i \in 1..(Len(kinds) + 1) |->
     IF i > Len(kinds) THEN Token("EOF", <<>>, 1, i)
     ELSE Token(kinds[i][1], kinds[i][2], 1, i)]

\* every list of up to n tokens before the EOF token
TokenListsUpTo(n) ==
  UNION {{TokensOf([i \in 1..m |-> TokenKinds[kinds[i]]]) : kinds \in [1..m -> 1..Len(TokenKinds)]}
           : m \in 0..n}

\* say and an expression: the operands a, b, c, ..., each after the unary
\* operator chosen for it (none for 0, and at most one operand has one), with
\* the binary operators chosen between them
RECURSIVE ExpressionKinds(_, _, _)
ExpressionKinds(i, operators, prefixes) ==
  (IF prefixes[i] = 0 THEN <<>> ELSE <<PrefixKinds[prefixes[i]]>>)
    \o << <<"IDENTIFIER", <<LowerCase[i]>>>> >>
    \o (IF i > Len(operators) THEN <<>>
        ELSE <<BinaryKinds[operators[i]]>> \o ExpressionKinds(i + 1, operators, prefixes))

ExpressionLists(n) ==
  UNION {{TokensOf(<< <<"SAY", <<"s", "a", "y">>>> >> \o ExpressionKinds(1, operators, prefixes)) :
            operators \in [1..m -> 1..Len(BinaryKinds)],
            prefixes \in {f \in [1..(m + 1) -> 0..Len(PrefixKinds)] :
                             Cardinality({i \in 1..(m + 1) : f[i] # 0}) <= 1}}
           : m \in 0..n}

\* the token of a keyword, an operator or a delimiter, and the literal tokens
KindOf(type) ==
  CHOOSE kind \in {TokenKinds[i] : i \in DOMAIN TokenKinds}
                    \cup {BinaryKinds[i] : i \in DOMAIN BinaryKinds}
                    \cup {PrefixKinds[i] : i \in DOMAIN PrefixKinds} : kind[1] = type

NameKind(text) == <<"IDENTIFIER", text>>
NumberKind(text) == <<"NUMBER", text>>
StringKind(text) == <<"STRING", text>>

\* longer programs, each the tokens of the text above it
\*   f(1)
CallAlone ==
  << NameKind(<<"f">>), KindOf("LPAREN"), NumberKind(<<"1">>), KindOf("RPAREN") >>

\*   if x { say 1 }
\*   else { say 2 }
IfThenNewlineElse ==
  << KindOf("IF"), NameKind(<<"x">>), KindOf("LBRACE"), KindOf("SAY"), NumberKind(<<"1">>),
     KindOf("RBRACE"), KindOf("NEWLINE"), KindOf("ELSE"), KindOf("LBRACE"), KindOf("SAY"),
     NumberKind(<<"2">>), KindOf("RBRACE") >>

\*   if x { say 1 } else { say 2 }
IfThenElse ==
  << KindOf("IF"), NameKind(<<"x">>), KindOf("LBRACE"), KindOf("SAY"), NumberKind(<<"1">>),
     KindOf("RBRACE"), KindOf("ELSE"), KindOf("LBRACE"), KindOf("SAY"), NumberKind(<<"2">>),
     KindOf("RBRACE") >>

\*   say 2 + 3 * 4
SayAddMultiply ==
  << KindOf("SAY"), NumberKind(<<"2">>), KindOf("PLUS"), NumberKind(<<"3">>),
     KindOf("MULTIPLY"), NumberKind(<<"4">>) >>

\*   say (2 + 3) * 4
SayParenthesized ==
  << KindOf("SAY"), KindOf("LPAREN"), NumberKind(<<"2">>), KindOf("PLUS"), NumberKind(<<"3">>),
     KindOf("RPAREN"), KindOf("MULTIPLY"), NumberKind(<<"4">>) >>

\*   say 10 - 3 - 2
SaySubtractTwice ==
  << KindOf("SAY"), NumberKind(<<"1", "0">>), KindOf("MINUS"), NumberKind(<<"3">>),
     KindOf("MINUS"), NumberKind(<<"2">>) >>

\*   say a or b and c
SayOrAnd ==
  << KindOf("SAY"), NameKind(<<"a">>), KindOf("OR"), NameKind(<<"b">>), KindOf("AND"),
     NameKind(<<"c">>) >>

\*   say not a == b
SayNotEquals ==
  << KindOf("SAY"), KindOf("NOT"), NameKind(<<"a">>), KindOf("EQ"), NameKind(<<"b">>) >>

\*   say f(1 + 2, -x) * 2
SayCallTimes ==
  << KindOf("SAY"), NameKind(<<"f">>), KindOf("LPAREN"), NumberKind(<<"1">>), KindOf("PLUS"),
     NumberKind(<<"2">>), KindOf("COMMA"), KindOf("MINUS"), NameKind(<<"x">>),
     KindOf("RPAREN"), KindOf("MULTIPLY"), NumberKind(<<"2">>) >>

\*   if c say "a"
IfSay ==
  << KindOf("IF"), NameKind(<<"c">>), KindOf("SAY"), StringKind(<<"\"", "a", "\"">>) >>

\*   if 1 { say 1 } else say "b"
IfOneElseSay ==
  << KindOf("IF"), NumberKind(<<"1">>), KindOf("LBRACE"), KindOf("SAY"), NumberKind(<<"1">>),
     KindOf("RBRACE"), KindOf("ELSE"), KindOf("SAY"), StringKind(<<"\"", "b", "\"">>) >>

\*   if 0 { say 1 } else say "b"
IfZeroElseSay ==
  << KindOf("IF"), NumberKind(<<"0">>), KindOf("LBRACE"), KindOf("SAY"), NumberKind(<<"1">>),
     KindOf("RBRACE"), KindOf("ELSE"), KindOf("SAY"), StringKind(<<"\"", "b", "\"">>) >>

\*   function f() { say 0 }
\*   if f() { say 1 }
IfCallOnce ==
  << KindOf("FUNCTION"), NameKind(<<"f">>), KindOf("LPAREN"), KindOf("RPAREN"),
     KindOf("LBRACE"), KindOf("SAY"), NumberKind(<<"0">>), KindOf("RBRACE"), KindOf("NEWLINE"),
     KindOf("IF"), NameKind(<<"f">>), KindOf("LPAREN"), KindOf("RPAREN"), KindOf("LBRACE"),
     KindOf("SAY"), NumberKind(<<"1">>), KindOf("RBRACE") >>

ParsePrograms ==
  { CallAlone, IfThenNewlineElse, IfThenElse, SayAddMultiply, SayParenthesized,
    SaySubtractTwice, SayOrAnd, SayNotEquals, SayCallTimes, IfSay, IfOneElseSay, IfZeroElseSay,
    IfCallOnce }

TokenLists ==
  TokenListsUpTo(MaxTokens) \cup ExpressionLists(MaxOperators)
    \cup {TokensOf(kinds) : kinds \in ParsePrograms}

\* a new Interpreter, and a Parser on one token list
InitParser ==
  /\ variables = Empty
  /\ functions = Empty
  /\ output = <<>>
  /\ return_value = NoneV
  /\ should_return = FALSE
  /\ ncalls = 0
  /\ \E tokens \in TokenLists :
       last = [op |-> "Parser", tokens |-> tokens, parser |-> Parser(tokens),
               post |-> RunState(Empty, Empty, <<>>, NoneV, FALSE)]

\* parser.parse()
Parse ==
  /\ last.op = "Parser"
  /\ last' = [last EXCEPT !.op = "parse", !.parser = parse(last.parser)]
  /\ UNCHANGED <<variables, functions, output, return_value, should_return, ncalls>>

\* the state after interpret() of the program parsed
ParsedBecomes(post) ==
  /\ post.sig # "oob"
  /\ variables' = post.variables
  /\ functions' = post.functions
  /\ output' = post.output
  /\ return_value' = post.return_value
  /\ should_return' = post.should_return
  /\ last' = [last EXCEPT !.op = "interpret", !.post = post]
  /\ UNCHANGED ncalls

\* interpreter.interpret(ast), when parse() returned a Program
InterpretParsed ==
  /\ last.op = "parse"
  /\ ~last.parser.raised
  /\ ~last.parser.unfollowed
  /\ ParsedBecomes(interpret(last.parser.nodes, Here))

SpecParser == InitParser /\ [][Parse \/ InterpretParsed]_vars

\* the node each statement parser returns, by the token type it is chosen for
StatementStarts ==
  ("FUNCTION" :> "FunctionDefinition") @@ ("IF" :> "IfStatement")
    @@ ("WHILE" :> "WhileStatement") @@ ("FOR" :> "ForStatement")
    @@ ("RETURN" :> "ReturnStatement") @@ ("SAY" :> "SayStatement")
    @@ ("KAS" :> "AssignmentStatement") @@ ("LBRACE" :> "BlockStatement")

\* where the first statement of a token list starts: after the newlines
FirstStatement(tokens) ==
  CHOOSE k \in 1..Len(tokens) :
    tokens[k].type # "NEWLINE" /\ \A j \in 1..(k - 1) : tokens[j].type = "NEWLINE"

UnexpectedToken(token) == "Unexpected token: '" \o Join(token.value) \o "'"

\* the statement was parsed by the parser of its first token: that token was
\* consumed, and the node returned is that parser's
ParsedAs(parser, first) ==
  /\ parser.raised => parser.error.token # first
  /\ ~parser.raised => parser.nodes[1].k = StatementStarts[first.type]

\* ParseError at the token, which no statement starts with
RaisedAt(parser, token) ==
  /\ parser.raised
  /\ parser.error.token = token
  /\ parser.error.message = UnexpectedToken(token)

\* parse() was called on last.tokens: last.parser is the Parser after it
Parsed == last.op \in {"parse", "interpret"}

Rank(node) ==
  CASE node.k = "BinaryOperation" ->
         (CASE node.operator = "or" -> 1
            [] node.operator = "and" -> 2
            [] node.operator \in {"==", "!="} -> 3
            [] node.operator \in {"<", ">", "<=", ">="} -> 4
            [] node.operator \in {"+", "-"} -> 5
            [] OTHER -> 6)
    [] node.k = "UnaryOperation" -> 7
    [] OTHER -> 8

\* every operand binds at least as tightly as its operator, and the right
\* operand of a binary operator more tightly: operators of one level group
\* from the left
RECURSIVE WellGrouped(_)
WellGrouped(node) ==
  CASE node.k = "BinaryOperation" ->
         /\ Rank(node.left) >= Rank(node)
         /\ Rank(node.right) > Rank(node)
         /\ WellGrouped(node.left)
         /\ WellGrouped(node.right)
    [] node.k = "UnaryOperation" -> Rank(node.operand) >= 7 /\ WellGrouped(node.operand)
    [] node.k = "ParenthesizedExpression" -> WellGrouped(node.expression)
    [] node.k = "FunctionCall" ->
         \A i \in 1..Len(node.arguments) : WellGrouped(node.arguments[i])
    [] OTHER -> TRUE

\* the texts of the tokens an expression is written with, in order
RECURSIVE Unparse(_), UnparseList(_)
Unparse(node) ==
  CASE node.k = "BinaryOperation" ->
         Unparse(node.left) \o <<node.operator>> \o Unparse(node.right)
    [] node.k = "UnaryOperation" -> <<node.operator>> \o Unparse(node.operand)
    [] node.k = "ParenthesizedExpression" -> <<"(">> \o Unparse(node.expression) \o <<")">>
    [] node.k = "FunctionCall" -> <<node.name, "(">> \o UnparseList(node.arguments) \o <<")">>
    [] node.k = "Identifier" -> <<node.name>>
    [] node.k = "NumberLiteral" -> <<Join(NatToStr(node.value.n \div 2))>>
    [] node.k = "BooleanLiteral" -> <<IF node.value.n = 1 THEN "true" ELSE "false">>
    [] OTHER -> <<"">>

UnparseList(nodes) ==
  IF nodes = <<>> THEN <<>>
  ELSE IF Len(nodes) = 1 THEN Unparse(nodes[1])
  ELSE Unparse(nodes[1]) \o <<",">> \o UnparseList(Tail(nodes))

\* the texts of the tokens from the second to the one before EOF
ExpressionTexts(tokens) == [i \in 1..(Len(tokens) - 2) |-> Join(tokens[i + 1].value)]

\* from token i to EOF: names, each after any unary operators, with one
\* binary operator between two of them
RECURSIVE OperandsAndOperators(_, _)
OperandsAndOperators(tokens, i) ==
  CASE tokens[i].type \in {"NOT", "MINUS", "PLUS"} -> OperandsAndOperators(tokens, i + 1)
    [] tokens[i].type = "IDENTIFIER" ->
         \/ tokens[i + 1].type = "EOF"
         \/ /\ tokens[i + 1].type \in {"OR", "AND", "EQ", "NEQ", "LT", "GT", "LTE", "GTE",
                                       "PLUS", "MINUS", "MULTIPLY", "DIVIDE", "MODULO"}
            /\ OperandsAndOperators(tokens, i + 2)
    [] OTHER -> FALSE

\* parse() returned the program say expression, of one line without string
\* or input
SayParsed ==
  /\ Parsed
  /\ ~last.parser.raised
  /\ ~last.parser.unfollowed
  /\ Len(last.parser.nodes) = 1
  /\ last.parser.nodes[1].k = "SayStatement"
  /\ \A i \in 1..Len(last.tokens) : last.tokens[i].type \notin {"STRING", "INPUT", "NEWLINE"}

\* the source text parsed last, and the output of its interpret()
ParsedProgram(kinds) == Parsed /\ last.tokens = TokensOf(kinds)
Prints(kinds, lines) == (last.op = "interpret" /\ last.tokens = TokensOf(kinds)) => output = lines

\* C24: the tree of an expression is the one the ladder or, and, equality,
\* relational, additive, multiplicative, unary, primary gives to its tokens,
\* with operators of one level grouped from the left and parentheses
\* overriding: 2 + 3 * 4 is 14, (2 + 3) * 4 is 20, 10 - 3 - 2 is 5,
\* a or b and c is a or (b and c), not a == b is (not a) == b
C24_PrecedenceLadder ==
  /\ (Parsed /\ last.tokens[1].type = "SAY" /\ OperandsAndOperators(last.tokens, 2)) =>
       ~last.parser.raised
  /\ SayParsed =>
       /\ WellGrouped(last.parser.nodes[1].expression)
       /\ Unparse(last.parser.nodes[1].expression) = ExpressionTexts(last.tokens)
  /\ Prints(SayAddMultiply,
            <<<<"1", "4", ".", "0">>>>)
  /\ Prints(SayParenthesized,
            <<<<"2", "0", ".", "0">>>>)
  /\ Prints(SaySubtractTwice,
            <<<<"5", ".", "0">>>>)
  /\ ParsedProgram(SayOrAnd) =>
       last.parser.nodes
         = <<SayStatement(BinaryOperation(Identifier("a"), "or",
               BinaryOperation(Identifier("b"), "and", Identifier("c"))))>>
  /\ ParsedProgram(SayNotEquals) =>
       last.parser.nodes
         = <<SayStatement(BinaryOperation(UnaryOperation("not", Identifier("a")), "==",
                                          Identifier("b")))>>

\* C24 witness: 10 - 3 - 2 was parsed as (10 - 3) - 2 and printed 5.0
C24_Witness ==
  /\ last.op = "interpret"
  /\ last.parser.nodes
       = <<SayStatement(BinaryOperation(
             BinaryOperation(NumberLiteral(20), "-", NumberLiteral(6)), "-", NumberLiteral(4)))>>
  /\ output = <<<<"5", ".", "0">>>>

\* C25: the then branch and the else branch of an if may each be any
\* statement, so if c say "a" and if c { ... } else say "b" both parse; the
\* if statement evaluates its condition once and executes exactly one branch
C25_IfBranchesAnyStatement ==
  /\ ParsedProgram(IfSay) =>
       /\ ~last.parser.raised
       /\ last.parser.nodes
            = <<IfStatement(Identifier("c"), SayStatement(StringLiteral(<<"a">>)), NoNode)>>
  /\ ParsedProgram(IfOneElseSay) =>
       /\ ~last.parser.raised
       /\ last.parser.nodes
            = <<IfStatement(NumberLiteral(2), BlockStatement(<<SayStatement(NumberLiteral(2))>>),
                            SayStatement(StringLiteral(<<"b">>)))>>
  /\ Prints(IfOneElseSay,
            <<<<"1", ".", "0">>>>)
  /\ Prints(IfZeroElseSay,
            <<<<"b">>>>)
  /\ Prints(IfCallOnce,
            <<<<"0", ".", "0">>>>)

\* ---------------------------------------------------------------- parse() under the recursion limit

\* a new Interpreter, and a Parser on one token list whose parse() is called
\* from the top of the program or by a caller MaxRoom frames under the limit
InitDeepParser ==
  /\ variables = Empty
  /\ functions = Empty
  /\ output = <<>>
  /\ return_value = NoneV
  /\ should_return = FALSE
  /\ ncalls = 0
  /\ \E tokens \in TokenLists, frames \in {1, MaxFrames - MaxRoom} :
       last = [op |-> "Parser", tokens |-> tokens,
               parser |-> [Parser(tokens) EXCEPT !.frames = frames],
               post |-> RunState(Empty, Empty, <<>>, NoneV, FALSE)]

SpecDeepParser == InitDeepParser /\ [][Parse]_vars

\* position was never moved back, nor past the EOF token
NeverBackNorPastEOF(parser) ==
  /\ parser.position <= Len(parser.tokens)
  /\ \A i \in 1..Len(parser.moves) :
       /\ parser.moves[i] <= Len(parser.tokens)
       /\ parser.moves[i] > (IF i = 1 THEN 1 ELSE parser.moves[i - 1]) - 1

\* every iteration of a loop that was followed by another one had advanced
EveryIterationAdvanced(parser) ==
  \A i \in 2..Len(parser.heads) : parser.heads[i] > parser.heads[i - 1]

\* C26: parse() ends on every token list that ends with EOF: it returns the
\* Program when every token before EOF is consumed, or raises ParseError with
\* the offending token; position never decreases and never passes EOF, and
\* every iteration of the loops over statements, parameters and arguments
\* advances position or raises
C26_ParseEndsWithProgramOrParseError ==
  Parsed =>
    /\ last.parser.raised =>
         /\ last.parser.error.kind = "ParseError"
         /\ last.parser.error.token = last.tokens[last.parser.position]
    /\ ~last.parser.raised => last.parser.position = Len(last.tokens)
    /\ NeverBackNorPastEOF(last.parser)
    /\ EveryIterationAdvanced(last.parser)

\* ---------------------------------------------------------------- return inside a loop

\* the tests a run made of one loop, in order: whether the loop went on, and
\* whether a return was pending at the test
LoopTests(steps, node) ==
  LET tests == SelectSeq(steps, LAMBDA e : e.event = "test" /\ e.node = node)
  IN  [j \in DOMAIN tests |-> [value |-> tests[j].value, pending |-> tests[j].pending]]

\* the tests of a loop of <end> iterations whose body returned in iteration
\* <at>: <end> that go on and one that does not, the return pending at every
\* test after iteration <at>
TestsWithReturn(end, at) ==
  [j \in 1..(end + 1) |-> [value |-> BoolV(j <= end), pending |-> at <= end /\ j > at]]

\* an iteration begins right after a test of its loop that went on, and a
\* test that went on is followed at once by the iteration
TestedBeforeEveryIteration(steps) ==
  /\ \A i \in DOMAIN steps :
       steps[i].event = "body" =>
         /\ i > 1
         /\ steps[i - 1].event = "test" /\ steps[i - 1].value = BoolV(TRUE)
         /\ steps[i - 1].node = steps[i].node /\ steps[i - 1].depth = steps[i].depth
  /\ \A i \in DOMAIN steps :
       (steps[i].event = "test" /\ steps[i].value = BoolV(TRUE)) =>
         i < Len(steps) /\ steps[i + 1].event = "body"

\* a loop whose test went on is tested again before the call it runs in returns
LoopsEndByTheirTest(steps) ==
  \A i \in DOMAIN steps :
    (steps[i].event = "test" /\ steps[i].value = BoolV(TRUE)) =>
      \E j \in (i + 1)..Len(steps) :
        /\ steps[j].event = "test"
        /\ steps[j].node = steps[i].node /\ steps[j].depth = steps[i].depth
        /\ \A m \in (i + 1)..(j - 1) :
             ~(steps[m].event = "exit" /\ steps[m].depth = steps[i].depth)

\* the one call of the run returned result, after every test of a loop
ReturnedAfterTests(steps, result) ==
  /\ Len(SelectSeq(steps, LAMBDA e : e.event = "exit")) = 1
  /\ \A i \in DOMAIN steps :
       steps[i].event = "exit" =>
         /\ steps[i].value = result
         /\ \A j \in DOMAIN steps : steps[j].event = "test" => j < i

RECURSIVE IterationLines(_, _, _)
\* what the iterations i..n print when none returns: the counter where the
\* body says it, then "rest"
IterationLines(i, n, counted) ==
  IF i > n THEN <<>>
  ELSE (IF counted THEN <<PyStr(FloatV(2 * i))>> ELSE <<>>) \o <<<<"r", "e", "s", "t">>>>
         \o IterationLines(i + 1, n, counted)

\* what a program that returns in iteration <at> of <end> prints: nothing
\* of the body after the return, and "after" only when nothing returned
ReturnLines(end, at, counted) ==
  IF at <= end
  THEN IterationLines(1, at - 1, counted)
         \o (IF counted THEN <<PyStr(FloatV(2 * at))>> ELSE <<>>)
         \o <<PyStr(FloatV(2 * at)), <<"d", "o", "n", "e">>>>
  ELSE IterationLines(1, end, counted)
         \o <<<<"a", "f", "t", "e", "r">>, PyStr(NoneV), <<"d", "o", "n", "e">>>>

\* the run of a program that returns in iteration <at> of a loop of <end>
ReturnRun(loop, end, at, counted) ==
  /\ ~last.post.raised
  /\ output = ReturnLines(end, at, counted)
  /\ LoopTests(last.post.steps, loop) = TestsWithReturn(end, at)
  /\ ReturnedAfterTests(last.post.steps, IF at <= end THEN FloatV(2 * at) ELSE NoneV)

\* a while loop whose condition stays true after the return is still running
\* when the fuel is spent, every later test made with the return pending
StillRunning(loop, at, ran) ==
  /\ ran.sig = "oob" /\ ran.fuel = 0
  /\ Len(LoopTests(ran.steps, loop)) = MaxFuel - 1
  /\ \A j \in 1..(MaxFuel - 1) :
       LoopTests(ran.steps, loop)[j] = [value |-> BoolV(TRUE), pending |-> j > at]

\* C27: while and for do not look at the pending return.  After a return in a
\* loop body inside a function the rest of the body is skipped, but the loop
\* goes on until its condition is false or its counter leaves the range, and
\* only then does the call return; every iteration begins right after a test
\* of the loop
C27_LoopsIgnorePendingReturn ==
  /\ (Interpreted /\ ~last.post.raised) =>
       /\ TestedBeforeEveryIteration(last.post.steps)
       /\ LoopsEndByTheirTest(last.post.steps)
  /\ \A end \in 0..MaxCount, at \in 1..(MaxCount + 1) :
       /\ (Interpreted /\ last.program = ReturnInForProgram(end, at)) =>
            ReturnRun(ReturnInFor(end, at), end, at, TRUE)
       /\ (Interpreted /\ last.program = ReturnInWhileProgram(end, at)) =>
            ReturnRun(ReturnInWhile(end, at), end, at, FALSE)
       /\ (Interpreted /\ at < end /\ last.program = ReturnInWhileProgram(at, at)) =>
            StillRunning(ReturnInWhile(end, at), at,
                         interpret(ReturnInWhileProgram(end, at),
                                   RunState(Empty, Empty, <<>>, NoneV, FALSE)))

\* C27 witness: for kas i = 1 to 3 returned in its first iteration, the loop
\* was tested three more times with the return pending, and the call
\* returned 1 after the last test
C27_Witness ==
  /\ Interpreted
  /\ last.program = ReturnInForProgram(3, 1)
  /\ output = <<PyStr(FloatV(2)), PyStr(FloatV(2)), <<"d", "o", "n", "e">>>>
  /\ Len(LoopTests(last.post.steps, ReturnInFor(3, 1))) = 4
  /\ \A j \in 2..4 : LoopTests(last.post.steps, ReturnInFor(3, 1))[j].pending

\* ---------------------------------------------------------------- string literals

\* the characters of the raw contents: the backslash, a letter that names an
\* escape, the quote that delimits the literal, and an ordinary letter
RawChars == {"\\", "n", "\"", "a"}

\* every raw content of up to n characters
RawContents(n) == UNION {[1..m -> RawChars] : m \in 0..n}

\* say "<raw>"
SayString(raw) == <<"s", "a", "y", " ", "\"">> \o raw \o <<"\"">>

\* a new Interpreter, and a Lexer on say "<raw>" for one raw content
InitStrings ==
  /\ variables = Empty
  /\ functions = Empty
  /\ output = <<>>
  /\ return_value = NoneV
  /\ should_return = FALSE
  /\ ncalls = 0
  /\ \E raw \in RawContents(MaxRaw) :
       last = [op |-> "Lexer", source |-> SayString(raw), lexer |-> Lexer(SayString(raw))]

\* Parser(tokens).parse() on the tokens the lexer returned
ParseTokenized ==
  /\ last.op = "tokenize"
  /\ ~last.lexer.error.raised
  /\ last' = [op |-> "parse", source |-> last.source, tokens |-> last.lexer.tokens,
              parser |-> parse(Parser(last.lexer.tokens))]
  /\ UNCHANGED <<variables, functions, output, return_value, should_return, ncalls>>

SpecStrings == InitStrings /\ [][Tokenize \/ ParseTokenized]_vars

\* what a backslash and the character after it stand for
EscapeMeaning ==
  ("n" :> "\n") @@ ("t" :> "\t") @@ ("r" :> "\r") @@ ("\\" :> "\\")
    @@ ("\"" :> "\"") @@ ("'" :> "'")

RECURSIVE DecodeOnePass(_)
\* the decoding in one pass from left to right: a backslash and the character
\* after it give their meaning, every other character is copied
DecodeOnePass(cs) ==
  IF cs = <<>> THEN <<>>
  ELSE IF cs[1] = "\\" /\ Len(cs) >= 2 /\ cs[2] \in DOMAIN EscapeMeaning
  THEN <<EscapeMeaning[cs[2]]>> \o DecodeOnePass(SubSeq(cs, 3, Len(cs)))
  ELSE <<cs[1]>> \o DecodeOnePass(Tail(cs))

\* the source was say and one string literal: the raw content of the literal
RawOf(source) == SubSeq(source, 6, Len(source) - 1)

\* the lexer took the source as say and one string literal
OneStringToken(tokens) ==
  /\ Len(tokens) = 3
  /\ tokens[1].type = "SAY" /\ tokens[2].type = "STRING" /\ tokens[3].type = "EOF"

\* C28: the value of a string literal is its raw content decoded in one pass
\* from left to right (a backslash with n, t, r, backslash or a quote after it
\* gives its meaning, every other character is copied), for every raw content
\* over backslash, n, the quote and a letter; the lexer keeps the raw slice
\* with its quotes
C28_EscapesDecodedInOnePass ==
  (last.op = "parse" /\ OneStringToken(last.tokens)) =>
    /\ last.tokens[2].value = SubSeq(last.source, 5, Len(last.source))
    /\ ~last.parser.raised
    /\ last.parser.nodes = <<SayStatement(StringLiteral(DecodeOnePass(RawOf(last.source))))>>

\* ---------------------------------------------------------------- the value of a call

\* where the call entered at step a returned: the first exit at its depth
ExitOf(steps, a) ==
  CHOOSE x \in (a + 1)..Len(steps) :
    /\ steps[x].event = "exit" /\ steps[x].depth = steps[a].depth
    /\ \A m \in (a + 1)..(x - 1) :
         ~(steps[m].event = "exit" /\ steps[m].depth = steps[a].depth)

\* the steps of the body of the call entered at step a, those of the calls
\* it made left out
OwnSteps(steps, a) ==
  {i \in (a + 1)..(ExitOf(steps, a) - 1) : steps[i].depth = steps[a].depth}

\* the return statements the call entered at step a executed
OwnReturns(steps, a) == {i \in OwnSteps(steps, a) : steps[i].event = "return"}

\* the call entered at step a returned the value of the first return it
\* executed, and executed no say, assignment or return after it
FirstReturnDecides(steps, a, first) ==
  /\ steps[ExitOf(steps, a)].value = steps[first].value
  /\ \A i \in OwnSteps(steps, a) :
       i > first => steps[i].event \notin {"say", "assign", "return"}

\* C29: a call returns the value of the first return statement its body
\* executed, or no value if it executed none; after that return the
\* activation executes no say, assignment or return, whatever calls are made
\* afterwards (as in a while condition evaluated again after the return)
C29_CallReturnsFirstReturn ==
  (Interpreted /\ ~last.post.raised) =>
    \A a \in DOMAIN last.post.steps :
      last.post.steps[a].event = "enter" =>
        IF OwnReturns(last.post.steps, a) = {}
        THEN last.post.steps[ExitOf(last.post.steps, a)].value = NoneV
        ELSE FirstReturnDecides(last.post.steps, a,
               CHOOSE first \in OwnReturns(last.post.steps, a) :
                 \A i \in OwnReturns(last.post.steps, a) : first <= i)

\* ---------------------------------------------------------------- the loop variable

\* the values the top-level say statements of the run printed, in order
SaidAtTopLevel(steps) ==
  LET said == SelectSeq(steps, LAMBDA e : e.event = "say" /\ e.depth = 0)
  IN  [j \in DOMAIN said |-> said[j].value]

\* the iterations a for loop from a to b by s runs, all three in halves
Iterations(a, b, s) == Len(CounterLines(a, b, s))

\* the run of for kas i = a to b step s { say i  kas i = 0 }: k iterations
\* whatever the body assigned, i holding the counter a + (j - 1) * s at the
\* start of iteration j, and a + k * s, outside the range, after the loop
CounterDrives(a, b, s, k) ==
  /\ ~last.post.raised
  /\ Len(SelectSeq(last.post.steps, LAMBDA e : e.event = "body")) = k
  /\ SaidAtTopLevel(last.post.steps) = [j \in 1..k |-> FloatV(a + (j - 1) * s)]
  /\ "i" \in DOMAIN variables
  /\ variables["i"] = FloatV(a + k * s)
  /\ IF s > 0 THEN a + k * s > b ELSE a + k * s < b

\* the run of a for loop from a whose step is zero: the error is raised with
\* i bound to a, and the body never ran
BoundBeforeZeroStep(a) ==
  /\ last.post.raised
  /\ output[Len(output)] = ErrorLine("For loop step cannot be zero")
  /\ SelectSeq(last.post.steps, LAMBDA e : e.event = "body") = <<>>
  /\ "i" \in DOMAIN variables
  /\ variables["i"] = FloatV(a)

\* C30: a for loop counts with a counter of its own.  Assigning the loop
\* variable in the body changes neither the number of iterations nor the
\* value the variable has when the next iteration starts; after the loop the
\* variable is still bound, to the first counter value outside the range
\* (start + k * step after k iterations); with a zero step the variable is
\* bound to the start value when the error is raised
C30_ForCounterIsPrivate ==
  IsForProgram =>
    IF BoundHalves(last.program[2].step) = 0
    THEN BoundBeforeZeroStep(BoundHalves(last.program[2].start))
    ELSE CounterDrives(BoundHalves(last.program[2].start),
                       BoundHalves(last.program[2].end),
                       BoundHalves(last.program[2].step),
                       Iterations(BoundHalves(last.program[2].start),
                                  BoundHalves(last.program[2].end),
                                  BoundHalves(last.program[2].step)))

\* C30 witness: for kas i = 1 to 5 ran five times, its body setting i to 0
\* each time, and left i at 6
C30_Witness ==
  /\ IsForProgram
  /\ last.program = ForProgram(Lit(1), Lit(5), NoNode)
  /\ Len(output) = 5
  /\ Len(SelectSeq(last.post.steps, LAMBDA e : e.event = "assign" /\ e.value = FloatV(0))) = 5
  /\ variables["i"] = FloatV(12)

====
